---------------------------- MODULE Spec2Model ----------------------------
(***************************************************************************)
(* A model of the QuantifyX extension core: the in-memory dataset store    *)
(* (InMemoryDatasetManager), the read-only virtual filesystem              *)
(* (DatasetFileSystemProvider), the dataset controller and its wallet      *)
(* session (DatasetController, SidebarProvider, StorageService), the       *)
(* browser wallet authentication (WalletAuthService) and the Fernet        *)
(* decoder (DecryptionService).                                            *)
(*                                                                         *)
(* Six specifications share the module:                                    *)
(*   Spec         the store and the virtual filesystem                     *)
(*   SessionSpec  the wallet session: connect, disconnect, restore         *)
(*   CtlSpec      the controller: unlockDataset, openLocalFile, lock,      *)
(*                clear, over the store                                    *)
(*   AuthSpec     WalletAuthService: authenticate() calls and callbacks    *)
(*   AuthLiveSpec the same with cancellation tokens and fairness           *)
(*   CodecSpec    DecryptionService: decryptDataset, decryptSimple,        *)
(*                decrypt                                                  *)
(* Optional values (null in the source) are sets of at most one element.   *)
(***************************************************************************)
EXTENDS Integers, Sequences, FiniteSets, TLC

VARIABLES
  now,            \* Date.now()
  datasets,       \* InMemoryDatasetManager.datasets: tokenId -> DecryptedDataset
  lastOp,         \* the operation the last step ran, with what it found
  ret,            \* what that operation returned or threw
  ctl,            \* the controller: session, persisted session, calls in flight
  auth,           \* WalletAuthService: fields, servers, authenticate() calls
  codec           \* DecryptionService: the input and the outcome of a call

vars == <<now, datasets, lastOp, ret, ctl, auth, codec>>

(***************************************************************************)
(* Bounds of the model.                                                    *)
(***************************************************************************)
MaxTime == 3

TokenIds == {"7", "8"}
Filenames == {"data.csv"}
UriNames == {"data.csv", "other.csv"}
Contents == {<<104, 105>>, <<>>}

(***************************************************************************)
(* InMemoryDatasetManager                                                  *)
(***************************************************************************)
Dataset(tokenId, content, filename, decryptedAt, expiryTimestamp) ==
  [tokenId |-> tokenId, content |-> content, filename |-> filename,
   decryptedAt |-> decryptedAt, expiryTimestamp |-> expiryTimestamp]

\* this.datasets.get(tokenId): the entry, or nothing
Lookup(m, tokenId) ==
  IF tokenId \in DOMAIN m THEN {m[tokenId]} ELSE {}

\* this.datasets.delete(tokenId)
MapDelete(m, tokenId) ==
  [id \in (DOMAIN m) \ {tokenId} |-> m[id]]

\* this.datasets.set(dataset.tokenId, dataset)
MapSet(m, dataset) ==
  [id \in (DOMAIN m) \cup {dataset.tokenId} |->
     IF id = dataset.tokenId THEN dataset ELSE m[id]]

isExpired_atExpiry(dataset, t) == t >= dataset.expiryTimestamp

isExpired_never(dataset, t) == FALSE

\* isExpired: Date.now() > dataset.expiryTimestamp
isExpired(dataset, t) == t > dataset.expiryTimestamp

getDatasetMap_evictsAtExpiry(m, tokenId, t) ==
  IF tokenId \in DOMAIN m /\ t >= m[tokenId].expiryTimestamp
    THEN MapDelete(m, tokenId)
    ELSE m

\* getDataset: the map it leaves (an expired entry is removed)
getDatasetMap(m, tokenId, t) ==
  IF tokenId \in DOMAIN m /\ isExpired(m[tokenId], t)
    THEN MapDelete(m, tokenId)
    ELSE m

\* getDataset: the value it returns
getDataset(m, tokenId, t) ==
  IF tokenId \notin DOMAIN m THEN {}
  ELSE IF isExpired(m[tokenId], t) THEN {}
  ELSE {m[tokenId]}

getDatasetContent_ignoresExpiry(m, tokenId, t) ==
  {d.content : d \in Lookup(m, tokenId)}

\* getDatasetContent: dataset ? dataset.content : null
getDatasetContent(m, tokenId, t) ==
  {d.content : d \in getDataset(m, tokenId, t)}

\* hasDataset: reads the map, never evicts
hasDataset(m, tokenId, t) ==
  IF tokenId \notin DOMAIN m THEN FALSE ELSE ~isExpired(m[tokenId], t)

\* getDatasetInfo: the entry without its content
getDatasetInfo(m, tokenId, t) ==
  {[tokenId |-> d.tokenId, filename |-> d.filename,
    decryptedAt |-> d.decryptedAt, expiryTimestamp |-> d.expiryTimestamp] :
      d \in getDataset(m, tokenId, t)}

sweepExpired_atExpiry(dataset, t) == dataset.expiryTimestamp <= t

\* cleanupExpiredDatasets: the test of one entry
sweepExpired(dataset, t) == dataset.expiryTimestamp < t

cleanupExpiredDatasets_firstOnly(m, t) ==
  LET expired == {i \in DOMAIN m : sweepExpired(m[i], t)}
  IN  IF expired = {} THEN m
      ELSE MapDelete(m, CHOOSE i \in expired : TRUE)

cleanupExpiredDatasets_halfEvicts(m, t) ==
  [id \in DOMAIN m |->
     IF sweepExpired(m[id], t) THEN [m[id] EXCEPT !.content = <<>>] ELSE m[id]]

\* cleanupExpiredDatasets: the map it leaves
cleanupExpiredDatasets(m, t) ==
  [id \in {i \in DOMAIN m : ~sweepExpired(m[i], t)} |-> m[id]]

\* Math.max
MathMax(a, b) == IF a >= b THEN a ELSE b

\* datasets.reduce((sum, ds) => sum + ds.content.length, 0)
RECURSIVE sumContentLength(_, _)
sumContentLength(m, ids) ==
  IF ids = {} THEN 0
  ELSE LET i == CHOOSE x \in ids : TRUE
       IN  Len(m[i].content) + sumContentLength(m, ids \ {i})

\* n / 1024 / 1024, kept as the fraction it is
bytesToMB(n) == [bytes |-> n, perMB |-> 1024 * 1024]

getMemoryStats_liveOnly(m, t) ==
  LET ids == {i \in DOMAIN m : m[i].expiryTimestamp > t}
      totalSizeBytes == sumContentLength(m, ids)
  IN  [datasetCount |-> Cardinality(ids),
       totalSizeBytes |-> totalSizeBytes,
       totalSizeMB |-> bytesToMB(totalSizeBytes),
       datasets |-> {[tokenId |-> m[i].tokenId, filename |-> m[i].filename,
                      sizeMB |-> bytesToMB(Len(m[i].content)),
                      expiresIn |-> MathMax(0, m[i].expiryTimestamp - t)] : i \in ids}]

\* getMemoryStats: every value of the map is counted, expired or not
getMemoryStats(m, t) ==
  LET ids == DOMAIN m
      totalSizeBytes == sumContentLength(m, ids)
  IN  [datasetCount |-> Cardinality(ids),
       totalSizeBytes |-> totalSizeBytes,
       totalSizeMB |-> bytesToMB(totalSizeBytes),
       datasets |-> {[tokenId |-> m[i].tokenId, filename |-> m[i].filename,
                      sizeMB |-> bytesToMB(Len(m[i].content)),
                      expiresIn |-> MathMax(0, m[i].expiryTimestamp - t)] : i \in ids}]

EmptyMap == [id \in {} |-> id]

\* what a step returned or threw, and the file-change events it fired
NoRet == [val |-> {}, flag |-> FALSE, err |-> "", events |-> {}]

Op(kind, id, pre) == [kind |-> kind, id |-> id, at |-> now, pre |-> pre]

NoCtl == [none |-> TRUE]
NoAuth == [none |-> TRUE]
NoCodec == [none |-> TRUE]

StoreInit ==
  /\ now = 0
  /\ datasets = EmptyMap
  /\ lastOp = [kind |-> "init", id |-> "", at |-> 0, pre |-> {}]
  /\ ret = NoRet
  /\ ctl = NoCtl
  /\ auth = NoAuth
  /\ codec = NoCodec

\* the clock advances
Tick ==
  /\ now < MaxTime
  /\ now' = now + 1
  /\ lastOp' = [kind |-> "tick", id |-> "", at |-> now + 1, pre |-> {}]
  /\ ret' = NoRet
  /\ UNCHANGED <<datasets, ctl, auth, codec>>

\* storeDataset(dataset), the dataset stamped with the caller's Date.now()
StoreDataset(tokenId, content, filename, expiry) ==
  /\ datasets' = MapSet(datasets, Dataset(tokenId, content, filename, now, expiry))
  /\ lastOp' = Op("storeDataset", tokenId, Lookup(datasets, tokenId))
  /\ ret' = NoRet
  /\ UNCHANGED <<now, ctl, auth, codec>>

GetDataset(tokenId) ==
  /\ datasets' = getDatasetMap(datasets, tokenId, now)
  /\ lastOp' = Op("getDataset", tokenId, Lookup(datasets, tokenId))
  /\ ret' = [NoRet EXCEPT !.val = getDataset(datasets, tokenId, now)]
  /\ UNCHANGED <<now, ctl, auth, codec>>

RemoveDataset_returnsTrue(tokenId) ==
  /\ datasets' = MapDelete(datasets, tokenId)
  /\ lastOp' = Op("removeDataset", tokenId, Lookup(datasets, tokenId))
  /\ ret' = [NoRet EXCEPT !.flag = TRUE]
  /\ UNCHANGED <<now, ctl, auth, codec>>

\* removeDataset: returns whether the entry existed
RemoveDataset(tokenId) ==
  /\ datasets' = MapDelete(datasets, tokenId)
  /\ lastOp' = Op("removeDataset", tokenId, Lookup(datasets, tokenId))
  /\ ret' = [NoRet EXCEPT !.flag = (tokenId \in DOMAIN datasets)]
  /\ UNCHANGED <<now, ctl, auth, codec>>

ClearAll ==
  /\ datasets' = EmptyMap
  /\ lastOp' = Op("clearAll", "", {})
  /\ ret' = NoRet
  /\ UNCHANGED <<now, ctl, auth, codec>>

\* the setInterval callback of the constructor
Sweep ==
  /\ datasets' = cleanupExpiredDatasets(datasets, now)
  /\ lastOp' = Op("sweep", "", {datasets[id] : id \in DOMAIN datasets})
  /\ ret' = NoRet
  /\ UNCHANGED <<now, ctl, auth, codec>>

\* hasDataset: whether a live entry is held; the map is only read
HasDataset(tokenId) ==
  /\ ret' = [NoRet EXCEPT !.flag = hasDataset(datasets, tokenId, now)]
  /\ lastOp' = Op("hasDataset", tokenId, Lookup(datasets, tokenId))
  /\ UNCHANGED <<now, datasets, ctl, auth, codec>>

GetMemoryStats ==
  /\ ret' = [NoRet EXCEPT !.val = {getMemoryStats(datasets, now)}]
  /\ lastOp' = Op("getMemoryStats", "", {})
  /\ UNCHANGED <<now, datasets, ctl, auth, codec>>

(***************************************************************************)
(* DatasetFileSystemProvider                                               *)
(***************************************************************************)
Uri(authority, name) == [authority |-> authority, path |-> name]

Uris == {Uri(a, n) : a \in TokenIds \cup {""}, n \in UriNames}

\* extractTokenId: uri.authority || null
extractTokenId(uri) == IF uri.authority = "" THEN {} ELSE {uri.authority}

readFileResult_matchesName(m, uri, t) ==
  LET tokenId == extractTokenId(uri)
      content == IF tokenId = {} THEN {}
                 ELSE IF \E d \in Lookup(m, uri.authority) : d.filename # uri.path THEN {}
                 ELSE getDatasetContent(m, uri.authority, t)
  IN  IF content = {} THEN [NoRet EXCEPT !.err = "FileNotFound"]
      ELSE [NoRet EXCEPT !.val = content]

\* what readFile returns or throws: the bytes getDatasetContent returns,
\* FileNotFound for no identifier or no content
readFileResult(m, uri, t) ==
  LET tokenId == extractTokenId(uri)
      content == IF tokenId = {} THEN {}
                 ELSE getDatasetContent(m, uri.authority, t)
  IN  IF content = {} THEN [NoRet EXCEPT !.err = "FileNotFound"]
      ELSE [NoRet EXCEPT !.val = content]

\* readFile; the path of the URI is not looked at
ReadFile(uri) ==
  /\ datasets' = IF extractTokenId(uri) = {} THEN datasets
                 ELSE getDatasetMap(datasets, uri.authority, now)
  /\ ret' = readFileResult(datasets, uri, now)
  /\ lastOp' = [kind |-> "readFile", id |-> uri.authority, at |-> now,
                pre |-> Lookup(datasets, uri.authority), path |-> uri.path]
  /\ UNCHANGED <<now, ctl, auth, codec>>

\* the vscode.FileStat that stat builds
FileStat(info, content) ==
  [type |-> "File", ctime |-> info.decryptedAt, mtime |-> info.decryptedAt,
   size |-> IF content = {} THEN 0 ELSE Len(CHOOSE c \in content : TRUE)]

\* what stat returns or throws: getDatasetInfo at t, then getDatasetContent
\* at t + dt
statResult(m, uri, t, dt) ==
  LET tokenId == extractTokenId(uri)
      info == IF tokenId = {} THEN {}
              ELSE getDatasetInfo(m, uri.authority, t)
      afterInfo == IF tokenId = {} THEN m
                   ELSE getDatasetMap(m, uri.authority, t)
      content == getDatasetContent(afterInfo, uri.authority, t + dt)
  IN  IF info = {} THEN [NoRet EXCEPT !.err = "FileNotFound"]
      ELSE [NoRet EXCEPT !.val = {FileStat(i, content) : i \in info}]

\* stat: getDatasetInfo, then getDatasetContent.  Each reads Date.now() for
\* itself; the second reading is dt later than the first
Stat(uri, dt) ==
  LET tokenId == extractTokenId(uri)
      afterInfo == IF tokenId = {} THEN datasets
                   ELSE getDatasetMap(datasets, uri.authority, now)
      found == statResult(datasets, uri, now, dt).err = ""
  IN  /\ now + dt <= MaxTime
      /\ datasets' = IF found THEN getDatasetMap(afterInfo, uri.authority, now + dt)
                     ELSE afterInfo
      /\ now' = IF found THEN now + dt ELSE now
      /\ ret' = statResult(datasets, uri, now, dt)
      /\ lastOp' = [kind |-> "stat", id |-> uri.authority, at |-> now,
                    pre |-> Lookup(datasets, uri.authority), path |-> uri.path]
      /\ UNCHANGED <<ctl, auth, codec>>

writeFile_saves(uri, content) ==
  /\ datasets' = IF uri.authority \in DOMAIN datasets
                   THEN [datasets EXCEPT ![uri.authority].content = content]
                   ELSE datasets
  /\ lastOp' = Op("writeFile", uri.authority, {})
  /\ ret' = NoRet
  /\ UNCHANGED <<now, ctl, auth, codec>>

\* writeFile: throws NoPermissions
writeFile(uri, content) ==
  /\ lastOp' = Op("writeFile", uri.authority, {})
  /\ ret' = [NoRet EXCEPT !.err = "NoPermissions"]
  /\ UNCHANGED <<now, datasets, ctl, auth, codec>>

\* delete: throws NoPermissions
delete(uri) ==
  /\ lastOp' = Op("delete", uri.authority, {})
  /\ ret' = [NoRet EXCEPT !.err = "NoPermissions"]
  /\ UNCHANGED <<now, datasets, ctl, auth, codec>>

\* rename: throws NoPermissions
rename(oldUri, newUri) ==
  /\ lastOp' = Op("rename", oldUri.authority, {})
  /\ ret' = [NoRet EXCEPT !.err = "NoPermissions"]
  /\ UNCHANGED <<now, datasets, ctl, auth, codec>>

\* createDirectory: throws NoPermissions
createDirectory(uri) ==
  /\ lastOp' = Op("createDirectory", uri.authority, {})
  /\ ret' = [NoRet EXCEPT !.err = "NoPermissions"]
  /\ UNCHANGED <<now, datasets, ctl, auth, codec>>

\* createUri: quantifyx://<tokenId>/<filename>
createUri(tokenId, filename) == Uri(tokenId, filename)

\* notifyFileCreated: the emitter fires one Created event for the entry's URI
notifyFileCreated(tokenId, filename) ==
  {[type |-> "Created", uri |-> createUri(tokenId, filename)]}

\* notifyFileDeleted: the emitter fires one Deleted event for the entry's URI
notifyFileDeleted(tokenId, filename) ==
  {[type |-> "Deleted", uri |-> createUri(tokenId, filename)]}

StoreNext ==
  \/ Tick
  \/ \E id \in TokenIds, c \in Contents, f \in Filenames, e \in 0..(MaxTime + 1) :
       StoreDataset(id, c, f, e)
  \/ \E id \in TokenIds : GetDataset(id)
  \/ \E id \in TokenIds : RemoveDataset(id)
  \/ \E id \in TokenIds : HasDataset(id)
  \/ ClearAll
  \/ Sweep
  \/ GetMemoryStats
  \/ \E u \in Uris : ReadFile(u)
  \/ \E u \in Uris, dt \in 0..1 : Stat(u, dt)
  \/ \E u \in Uris, c \in Contents : writeFile(u, c)
  \/ \E u \in Uris : delete(u)
  \/ \E u \in Uris, n \in UriNames : rename(u, Uri(u.authority, n))
  \/ \E u \in Uris : createDirectory(u)

Spec == StoreInit /\ [][StoreNext]_vars


(***************************************************************************)
(* DecryptionService.  Bytes are 0..255 and buffers are sequences of       *)
(* bytes; a string is the sequence of its character codes.  HMAC-SHA256,   *)
(* SHA-256 and AES-CBC are replaced by small keyed functions of the same   *)
(* shape: a 32-byte digest of key and data, and a block-chained byte       *)
(* cipher with PKCS#7 padding over 16-byte blocks.                         *)
(***************************************************************************)
RECURSIVE SumSeq(_)
SumSeq(s) == IF s = <<>> THEN 0 ELSE Head(s) + SumSeq(Tail(s))

RECURSIVE WeightedSum(_, _)
WeightedSum(s, i) ==
  IF i > Len(s) THEN 0 ELSE i * s[i] + WeightedSum(s, i + 1)

\* buffer.subarray(from, to): the bytes at offsets from .. to-1
subarray(buf, from, to) ==
  IF to <= from THEN <<>> ELSE [i \in 1..(to - from) |-> buf[from + i]]

\* crypto.createHmac('sha256', key).update(data).digest()
hmacSha256(key, data) ==
  LET h == (17 * SumSeq(key) + WeightedSum(data, 1) + Len(data)) % 256
  IN  [j \in 1..32 |-> (h + 7 * j) % 256]

\* crypto.createHash('sha256').update(data).digest()
sha256(data) ==
  LET h == (SumSeq(data) + 5 * Len(data)) % 256
  IN  [j \in 1..32 |-> (h + 3 * j) % 256]

timingSafeEqual_firstHalf(a, b) == subarray(a, 0, 16) = subarray(b, 0, 16)

\* crypto.timingSafeEqual(a, b) on two 32-byte buffers
timingSafeEqual(a, b) == a = b

timingSafeEqualExamined_shortCircuit(a, b) ==
  LET differ == {i \in 1..Len(a) : i > Len(b) \/ a[i] # b[i]}
  IN  IF differ = {} THEN Len(a)
      ELSE CHOOSE i \in differ : \A j \in differ : i <= j

\* crypto.timingSafeEqual(a, b): the byte pairs it examines before it
\* answers: all of them, whatever the bytes are
timingSafeEqualExamined(a, b) == Len(a)

\* the key byte the block cipher combines with the byte at position i
KeyByte(key, i) == key[((i - 1) % Len(key)) + 1]

\* PKCS#7: the padded plaintext
Pad(pt) ==
  LET n == 16 - (Len(pt) % 16)
  IN  pt \o [i \in 1..n |-> n]

\* createCipheriv(...).update(pt) + final(): the ciphertext
cbcEncrypt(key, iv, pt) ==
  LET p == Pad(pt)
      c[i \in 1..Len(p)] ==
        (p[i] + KeyByte(key, i) + (IF i <= 16 THEN iv[i] ELSE c[i - 16])) % 256
  IN  [i \in 1..Len(p) |-> c[i]]

\* createDecipheriv(...).update(ct) + final(): the plaintext, or the error
\* final() throws
cbcDecrypt(key, iv, ct) ==
  IF Len(ct) = 0 \/ Len(ct) % 16 # 0 \/ Len(iv) # 16
    THEN [ok |-> FALSE, value |-> <<>>, error |-> "wrong final block length"]
  ELSE
    LET p == [i \in 1..Len(ct) |->
                (ct[i] + 512 - KeyByte(key, i)
                       - (IF i <= 16 THEN iv[i] ELSE ct[i - 16])) % 256]
        n == p[Len(p)]
    IN  IF n >= 1 /\ n <= 16 /\ \A i \in (Len(p) - n + 1)..Len(p) : p[i] = n
          THEN [ok |-> TRUE, value |-> subarray(p, 0, Len(p) - n), error |-> ""]
          ELSE [ok |-> FALSE, value |-> <<>>, error |-> "bad decrypt"]

\* the value of a base64 character (both alphabets), 64 for any other
unbase64(c) ==
  IF c >= 65 /\ c <= 90 THEN c - 65
  ELSE IF c >= 97 /\ c <= 122 THEN c - 71
  ELSE IF c >= 48 /\ c <= 57 THEN c + 4
  ELSE IF c = 43 \/ c = 45 THEN 62
  ELSE IF c = 47 \/ c = 95 THEN 63
  ELSE 64

\* the characters before the first '='
RECURSIVE BeforePad(_)
BeforePad(str) ==
  IF str = <<>> \/ Head(str) = 61 THEN <<>>
  ELSE <<Head(str)>> \o BeforePad(Tail(str))

\* Buffer.from(str, 'base64'): characters outside the alphabet are skipped,
\* decoding stops at '=', every 4 characters give 3 bytes
bufferFromBase64(str) ==
  LET legal == SelectSeq(BeforePad(str), LAMBDA c : unbase64(c) < 64)
      sx == [i \in 1..Len(legal) |-> unbase64(legal[i])]
      n == (6 * Len(sx)) \div 8
      byte(k) ==
        LET o == 8 * (k - 1)
            q == (o \div 6) + 1
            r == o % 6
            two == 64 * sx[q] + sx[q + 1]
        IN  (two \div (IF r = 0 THEN 16 ELSE IF r = 2 THEN 4 ELSE 1)) % 256
  IN  [k \in 1..n |-> byte(k)]

\* base64UrlDecode: '-' to '+', '_' to '/', pad with '=' to a multiple of 4
base64UrlDecode(str) ==
  LET repl == [i \in 1..Len(str) |->
                 IF str[i] = 45 THEN 43 ELSE IF str[i] = 95 THEN 47 ELSE str[i]]
      padded == repl \o [i \in 1..((4 - (Len(repl) % 4)) % 4) |-> 61]
  IN  bufferFromBase64(padded)

VERSION == 128
MIN_TOKEN_LEN == 57
HMAC_LEN == 32
KEY_LEN == 32

\* decryptDataset of unnamed/part_003, lines 29-45: a token that does not
\* start with 0x80 is replaced by its base64url decoding when that does
unwrapToken(data) ==
  IF Len(data) > 0 /\ data[1] # VERSION
    THEN LET decoded == base64UrlDecode(data)
         IN  IF Len(decoded) > 0 /\ decoded[1] = VERSION THEN decoded ELSE data
    ELSE data

Variants == {"throwing", "nullReturning"}

\* the catch block: the throwing file rethrows, the other returns null
Failure(variant, error, ops) ==
  [ok |-> FALSE, value |-> <<>>, error |-> error, ops |-> ops,
   thrown |-> (variant = "throwing")]

Success(value, ops) ==
  [ok |-> TRUE, value |-> value, error |-> "", ops |-> ops, thrown |-> FALSE]

decryptDataset_decryptFirst(variant, data, key) ==
  LET tok == IF variant = "throwing" THEN unwrapToken(data) ELSE data
      keyBuffer == base64UrlDecode(key)
      plain == cbcDecrypt(subarray(keyBuffer, 16, 32), subarray(tok, 9, 25),
                          subarray(tok, 25, Len(tok) - HMAC_LEN))
  IN  IF Len(tok) < MIN_TOKEN_LEN
        THEN Failure(variant, "Invalid token: too short", <<"length">>)
      ELSE IF tok[1] # VERSION
        THEN Failure(variant, "Invalid token version", <<"length", "version">>)
      ELSE IF Len(keyBuffer) # KEY_LEN
        THEN Failure(variant, "Invalid key length", <<"length", "version", "keyLength">>)
      ELSE IF ~plain.ok
        THEN Failure(variant, plain.error,
                     <<"length", "version", "keyLength", "aes-128-cbc">>)
      ELSE IF ~timingSafeEqual(subarray(tok, Len(tok) - HMAC_LEN, Len(tok)),
                  hmacSha256(subarray(keyBuffer, 0, 16),
                             subarray(tok, 0, Len(tok) - HMAC_LEN)))
        THEN Failure(variant, "HMAC verification failed",
                     <<"length", "version", "keyLength", "aes-128-cbc", "hmac">>)
      ELSE Success(plain.value,
                   <<"length", "version", "keyLength", "aes-128-cbc", "hmac">>)

\* decryptDataset with the key length examined after the tag
decryptDataset_keyAfterTag(variant, data, key) ==
  LET tok == IF variant = "throwing" THEN unwrapToken(data) ELSE data
      keyBuffer == base64UrlDecode(key)
      plain == cbcDecrypt(subarray(keyBuffer, 16, 32), subarray(tok, 9, 25),
                          subarray(tok, 25, Len(tok) - HMAC_LEN))
  IN  IF Len(tok) < MIN_TOKEN_LEN
        THEN Failure(variant, "Invalid token: too short", <<"length">>)
      ELSE IF tok[1] # VERSION
        THEN Failure(variant, "Invalid token version", <<"length", "version">>)
      ELSE IF ~timingSafeEqual(subarray(tok, Len(tok) - HMAC_LEN, Len(tok)),
                  hmacSha256(subarray(keyBuffer, 0, IF Len(keyBuffer) < 16 THEN Len(keyBuffer) ELSE 16),
                             subarray(tok, 0, Len(tok) - HMAC_LEN)))
        THEN Failure(variant, "HMAC verification failed", <<"length", "version", "hmac">>)
      ELSE IF Len(keyBuffer) # KEY_LEN
        THEN Failure(variant, "Invalid key length", <<"length", "version", "hmac", "keyLength">>)
      ELSE IF ~plain.ok
        THEN Failure(variant, plain.error,
                     <<"length", "version", "hmac", "keyLength", "aes-128-cbc">>)
      ELSE Success(plain.value,
                   <<"length", "version", "hmac", "keyLength", "aes-128-cbc">>)

\* decryptDataset with the two halves of the key exchanged
decryptDataset_swappedHalves(variant, data, key) ==
  LET tok == IF variant = "throwing" THEN unwrapToken(data) ELSE data
      keyBuffer == base64UrlDecode(key)
      plain == cbcDecrypt(subarray(keyBuffer, 0, 16), subarray(tok, 9, 25),
                          subarray(tok, 25, Len(tok) - HMAC_LEN))
  IN  IF Len(tok) < MIN_TOKEN_LEN
        THEN Failure(variant, "Invalid token: too short", <<"length">>)
      ELSE IF tok[1] # VERSION
        THEN Failure(variant, "Invalid token version", <<"length", "version">>)
      ELSE IF Len(keyBuffer) # KEY_LEN
        THEN Failure(variant, "Invalid key length", <<"length", "version", "keyLength">>)
      ELSE IF ~timingSafeEqual(subarray(tok, Len(tok) - HMAC_LEN, Len(tok)),
                  hmacSha256(subarray(keyBuffer, 16, 32),
                             subarray(tok, 0, Len(tok) - HMAC_LEN)))
        THEN Failure(variant, "HMAC verification failed",
                     <<"length", "version", "keyLength", "hmac">>)
      ELSE IF ~plain.ok
        THEN Failure(variant, plain.error,
                     <<"length", "version", "keyLength", "hmac", "aes-128-cbc">>)
      ELSE Success(plain.value,
                   <<"length", "version", "keyLength", "hmac", "aes-128-cbc">>)

\* decryptDataset: the result, with the operations it ran in their order
decryptDataset(variant, data, key) ==
  LET tok == IF variant = "throwing" THEN unwrapToken(data) ELSE data
      iv == subarray(tok, 9, 25)
      ciphertext == subarray(tok, 25, Len(tok) - HMAC_LEN)
      hmac == subarray(tok, Len(tok) - HMAC_LEN, Len(tok))
      keyBuffer == base64UrlDecode(key)
      signingKey == subarray(keyBuffer, 0, 16)
      encryptionKey == subarray(keyBuffer, 16, 32)
      computedHmac == hmacSha256(signingKey, subarray(tok, 0, Len(tok) - HMAC_LEN))
      plain == cbcDecrypt(encryptionKey, iv, ciphertext)
  IN  IF Len(tok) < MIN_TOKEN_LEN
        THEN Failure(variant, "Invalid token: too short", <<"length">>)
      ELSE IF tok[1] # VERSION
        THEN Failure(variant, "Invalid token version", <<"length", "version">>)
      ELSE IF Len(keyBuffer) # KEY_LEN
        THEN Failure(variant, "Invalid key length", <<"length", "version", "keyLength">>)
      ELSE IF ~timingSafeEqual(hmac, computedHmac)
        THEN Failure(variant, "HMAC verification failed",
                     <<"length", "version", "keyLength", "hmac">>)
      ELSE IF ~plain.ok
        THEN Failure(variant, plain.error,
                     <<"length", "version", "keyLength", "hmac", "aes-128-cbc">>)
      ELSE Success(plain.value,
                   <<"length", "version", "keyLength", "hmac", "aes-128-cbc">>)

\* decryptSimple: key = SHA-256 of the base64-decoded key, IV = first 16 bytes
decryptSimple(variant, data, key) ==
  LET keyBuffer == bufferFromBase64(key)
      hashedKey == sha256(keyBuffer)
      iv == subarray(data, 0, IF Len(data) < 16 THEN Len(data) ELSE 16)
      ciphertext == subarray(data, 16, Len(data))
      plain == cbcDecrypt(hashedKey, iv, ciphertext)
  IN  IF ~plain.ok
        THEN Failure(variant, IF Len(iv) # 16 THEN "Invalid IV length" ELSE plain.error,
                     <<"sha256", "aes-256-cbc">>)
        ELSE Success(plain.value, <<"sha256", "aes-256-cbc">>)

\* decrypt: the primary decoder, then the fallback; when both fail the
\* throwing file rethrows the primary error, the other returns null
decrypt(variant, data, key) ==
  LET first == decryptDataset(variant, data, key)
      second == decryptSimple(variant, data, key)
  IN  IF first.ok THEN first
      ELSE IF second.ok THEN [second EXCEPT !.ops = first.ops \o second.ops]
      ELSE IF variant = "throwing"
        THEN [first EXCEPT !.ops = first.ops \o second.ops]
        ELSE [second EXCEPT !.ops = first.ops \o second.ops]

(***************************************************************************)
(* Inputs of the decoder: keys, tokens built as Fernet builds them, and    *)
(* damaged or foreign variants of them.                                    *)
(***************************************************************************)
\* the base64url character of a 6-bit value
Base64Char(v) ==
  IF v < 26 THEN 65 + v
  ELSE IF v < 52 THEN 71 + v
  ELSE IF v < 62 THEN v - 4
  ELSE IF v = 62 THEN 45 ELSE 95

\* base64.urlsafe_b64encode
Base64UrlEncode(bytes) ==
  LET nbits == 8 * Len(bytes)
      nchar == (nbits + 5) \div 6
      bit(b) == IF b >= nbits THEN 0
                ELSE (bytes[(b \div 8) + 1] \div (2 ^ (7 - (b % 8)))) % 2
      sext(k) == LET o == 6 * (k - 1)
                 IN  32 * bit(o) + 16 * bit(o + 1) + 8 * bit(o + 2)
                       + 4 * bit(o + 3) + 2 * bit(o + 4) + bit(o + 5)
      chars == [k \in 1..nchar |-> Base64Char(sext(k))]
  IN  chars \o [i \in 1..((4 - (nchar % 4)) % 4) |-> 61]

\* Fernet.encrypt: version, timestamp, IV, ciphertext, then the tag
MakeToken(keyBytes, ts, iv, pt) ==
  LET body == <<VERSION>> \o ts \o iv
                \o cbcEncrypt(subarray(keyBytes, 16, 32), iv, pt)
  IN  body \o hmacSha256(subarray(keyBytes, 0, 16), body)

\* a token body carrying the tag of its own bytes
Sealed(keyBytes, body) == body \o hmacSha256(subarray(keyBytes, 0, 16), body)

SetByte(buf, i, b) == [buf EXCEPT ![i] = b]

KeyBytesA == [i \in 1..32 |-> i]
KeyBytesB == [i \in 1..32 |-> (3 * i + 1) % 256]
KeyA == Base64UrlEncode(KeyBytesA)
KeyB == Base64UrlEncode(KeyBytesB)
KeyShort == Base64UrlEncode([i \in 1..16 |-> i])
KeyLong == Base64UrlEncode([i \in 1..33 |-> i])
SampleKeys == {KeyA, KeyB, KeyShort, KeyLong}

Stamp == [i \in 1..8 |-> i]
IvA == [i \in 1..16 |-> 40 + i]
IvVersion == [i \in 1..16 |-> IF i = 1 THEN VERSION ELSE 60 + i]
PlainA == <<104, 105>>
PlainB == [i \in 1..17 |-> 64 + i]

TokenA == MakeToken(KeyBytesA, Stamp, IvA, PlainA)
TokenB == MakeToken(KeyBytesA, Stamp, IvA, PlainB)

\* plaintexts, keys and IVs with the token Fernet builds from them
RoundTripCases ==
  { [plain |-> pt, key |-> Base64UrlEncode(kb), token |-> MakeToken(kb, Stamp, iv, pt)] :
      pt \in {<<>>, PlainA, PlainB}, kb \in {KeyBytesA, KeyBytesB}, iv \in {IvA, IvVersion} }

\* tokens that differ from a valid token in the tag region only
TagTampered ==
  { SetByte(t, i, (t[i] + d) % 256) :
      t \in {TokenA, TokenB}, i \in {Len(TokenA) - 31, Len(TokenA) - 9, Len(TokenA)},
      d \in {1, 128} }
    \cup { SetByte(TokenB, i, (TokenB[i] + 1) % 256) : i \in {Len(TokenB) - 31, Len(TokenB)} }

\* the fallback format: IV, then the ciphertext under SHA-256 of the key
MakeSimple(key, iv, pt) == iv \o cbcEncrypt(sha256(bufferFromBase64(key)), iv, pt)

SampleData ==
  { TokenA, TokenB,
    Base64UrlEncode(TokenA),
    SetByte(TokenA, 30, (TokenA[30] + 1) % 256),
    Sealed(KeyBytesA, subarray(TokenA, 0, 40) \o <<9>>
                        \o subarray(TokenA, 41, Len(TokenA) - HMAC_LEN)),
    Sealed(KeyBytesA, subarray(TokenA, 0, Len(TokenA) - HMAC_LEN - 1)),
    SetByte(TokenA, 1, 129),
    <<VERSION, 1, 2>>,
    <<>>,
    MakeSimple(KeyA, IvA, PlainA),
    MakeSimple(KeyA, IvVersion, PlainB \o PlainB \o PlainB),
    Base64UrlEncode(SetByte(TokenA, Len(TokenA), (TokenA[Len(TokenA)] + 1) % 256)),
    Base64UrlEncode(<<VERSION, 1, 2>>) }
  \cup TagTampered
  \cup {rc.token : rc \in RoundTripCases}

CodecIdle == [ok |-> FALSE, value |-> <<>>, error |-> "", ops |-> <<>>, thrown |-> FALSE]

CodecInit ==
  /\ now = 0
  /\ datasets = EmptyMap
  /\ lastOp = [kind |-> "init", id |-> "", at |-> 0, pre |-> {}]
  /\ ret = NoRet
  /\ ctl = NoCtl
  /\ auth = NoAuth
  /\ \E d \in SampleData, k \in SampleKeys, v \in Variants :
       codec = [data |-> d, key |-> k, variant |-> v, fn |-> "none", out |-> CodecIdle]

CallDecryptDataset ==
  /\ codec.fn = "none"
  /\ codec' = [codec EXCEPT !.fn = "decryptDataset",
                 !.out = decryptDataset(codec.variant, codec.data, codec.key)]
  /\ UNCHANGED <<now, datasets, lastOp, ret, ctl, auth>>

CallDecryptSimple ==
  /\ codec.fn = "none"
  /\ codec' = [codec EXCEPT !.fn = "decryptSimple",
                 !.out = decryptSimple(codec.variant, codec.data, codec.key)]
  /\ UNCHANGED <<now, datasets, lastOp, ret, ctl, auth>>

CallDecrypt ==
  /\ codec.fn = "none"
  /\ codec' = [codec EXCEPT !.fn = "decrypt",
                 !.out = decrypt(codec.variant, codec.data, codec.key)]
  /\ UNCHANGED <<now, datasets, lastOp, ret, ctl, auth>>

CodecNext ==
  \/ CallDecryptDataset
  \/ CallDecryptSimple
  \/ CallDecrypt

CodecSpec == CodecInit /\ [][CodecNext]_vars

(***************************************************************************)
(* WalletAuthService.  Each authenticate() call is a process that yields   *)
(* at its awaits; a step runs from one await to the next.  A server whose  *)
(* close() was called stays "closing" while connections are open, and the  *)
(* requests on them are still handled.                                     *)
(***************************************************************************)
AUTH_TIMEOUT_MS == 120000

AuthTick == 60000
MaxAuthTicks == 3

\* the authenticate() calls of a run; a call's nonce and server carry its number
Calls == {1, 2}

\* request addresses as MetaMask gives them, and the checksummed addresses
\* that ethers.verifyMessage recovers
ReqAddresses == {"0xab", "0xcd"}
Signers == {"0xAB"}

\* String.prototype.toLowerCase on the addresses of the model
toLowerCase(x) ==
  IF x = "0xAB" THEN "0xab"
  ELSE IF x = "0xCD" THEN "0xcd"
  ELSE IF x = "0xEE" THEN "0xee"
  ELSE x

NoResult == [success |-> FALSE, walletAddress |-> "", error |-> ""]

IdleCall ==
  [pc |-> "idle", nonce |-> 0, timer |-> -1, closing |-> 0,
   result |-> NoResult, resolvedBy |-> {}]

NoCb == [kind |-> "none"]

AuthInit ==
  /\ now = 0
  /\ datasets = EmptyMap
  /\ lastOp = [kind |-> "init", id |-> "", at |-> 0, pre |-> {}]
  /\ ret = NoRet
  /\ ctl = NoCtl
  /\ codec = NoCodec
  /\ auth = [server |-> {}, authChallenge |-> {}, authResolve |-> {}, authReject |-> {},
             servers |-> [c \in Calls |-> "none"],
             calls |-> [c \in Calls |-> IdleCall],
             issued |-> 0, waiters |-> <<>>,
             answered |-> {},
             cancellation |-> [c \in Calls |-> "none"],
             lastCb |-> NoCb]

\* generateNonce: 32 random bytes, a value never issued before
generateNonce(a) == a.issued + 1

\* authenticate, lines 48-56: the challenge is recorded and the port search begins
IssueChallenge(a, c) ==
  [a EXCEPT !.issued = @ + 1,
            !.authChallenge = {[nonce |-> generateNonce(a), timestamp |-> now,
                                expiresAt |-> now + AUTH_TIMEOUT_MS]},
            !.calls[c].nonce = generateNonce(a),
            !.calls[c].pc = "port",
            !.calls[c].closing = 0]

\* cleanup, lines 715-717
ClearTransient(a) ==
  [a EXCEPT !.authChallenge = {}, !.authResolve = {}, !.authReject = {}]

\* what follows an awaited cleanup(): the body of authenticate, or its return
AfterCleanup(a, c, phase) ==
  IF phase = "start" THEN IssueChallenge(a, c)
  ELSE [a EXCEPT !.calls[c].pc = "done", !.calls[c].closing = 0]

\* cleanup(): with a server held, close it and wait for its 'close' event
\* (at once when it holds no handle and no connection), then clear the fields
cleanup(a, c, phase) ==
  IF a.server = {} THEN AfterCleanup(ClearTransient(a), c, phase)
  ELSE
    LET s == CHOOSE x \in a.server : TRUE
    IN  IF a.servers[s] \in {"listening", "closing"}
          THEN [a EXCEPT !.servers[s] = "closing",
                         !.calls[c].pc = IF phase = "start" THEN "cleanup0" ELSE "cleanup1",
                         !.calls[c].closing = s,
                         !.waiters = Append(@, c)]
          ELSE AfterCleanup(ClearTransient([a EXCEPT !.server = {}]), c, phase)

\* authenticate's catch and finally: the failure result, then cleanup()
Fail(a, c, msg) ==
  cleanup([a EXCEPT !.calls[c].result =
                      [success |-> FALSE, walletAddress |-> "", error |-> msg],
                    !.calls[c].timer = -1],
          c, "finally")

\* authenticate's return of the resolved result, then its finally
Succeed(a, c, address) ==
  cleanup([a EXCEPT !.calls[c].result =
                      [success |-> TRUE, walletAddress |-> address, error |-> ""],
                    !.calls[c].timer = -1],
          c, "finally")

\* the continuations of the cleanup() calls waiting for server s, in the
\* order they called close()
RECURSIVE ResumeWaiters(_, _, _)
ResumeWaiters(a, s, w) ==
  IF w = <<>> THEN a
  ELSE
    LET c == Head(w)
    IN  IF a.calls[c].closing = s /\ a.calls[c].pc \in {"cleanup0", "cleanup1"}
          THEN ResumeWaiters(
                 AfterCleanup(ClearTransient([a EXCEPT !.server = {}]), c,
                              IF a.calls[c].pc = "cleanup0" THEN "start" ELSE "finally"),
                 s, Tail(w))
          ELSE ResumeWaiters(a, s, Tail(w))

Stamp0(a) == [a EXCEPT !.lastCb = NoCb]

AuthUnchanged == UNCHANGED <<datasets, lastOp, ret, ctl, codec>>

\* the clock advances
AuthTickStep ==
  /\ now < MaxAuthTicks * AuthTick
  /\ now' = now + AuthTick
  /\ auth' = Stamp0(auth)
  /\ AuthUnchanged

\* authenticate() is called: the first cleanup()
AuthStart(c) ==
  /\ auth.calls[c].pc = "idle"
  /\ auth' = Stamp0(cleanup(auth, c, "start"))
  /\ UNCHANGED now
  /\ AuthUnchanged

\* the 'close' event of a server: its connections have ended
CloseDone(s) ==
  /\ auth.servers[s] = "closing"
  /\ auth' = Stamp0(ResumeWaiters(
                [auth EXCEPT !.servers[s] = "closed",
                             !.waiters = SelectSeq(@, LAMBDA c : auth.calls[c].closing # s)],
                s, auth.waiters))
  /\ UNCHANGED now
  /\ AuthUnchanged

\* findAvailablePort found a port and startAuthServer's listen succeeded:
\* this.server is the new server, and the browser is being opened
PortListening(c) ==
  /\ auth.calls[c].pc = "port"
  /\ auth' = Stamp0([auth EXCEPT !.server = {c}, !.servers[c] = "listening",
                                 !.calls[c].pc = "browser"])
  /\ UNCHANGED now
  /\ AuthUnchanged

\* findAvailablePort found a port but listen raised 'error' (port taken since)
PortListenError(c) ==
  /\ auth.calls[c].pc = "port"
  /\ auth' = Stamp0(Fail([auth EXCEPT !.server = {c}, !.servers[c] = "failed"],
                         c, "listen EADDRINUSE"))
  /\ UNCHANGED now
  /\ AuthUnchanged

\* findAvailablePort found no port in the range
PortExhausted(c) ==
  /\ auth.calls[c].pc = "port"
  /\ auth' = Stamp0(Fail(auth, c, "No available ports found in range 3000-3099"))
  /\ UNCHANGED now
  /\ AuthUnchanged

\* open(url) resolved: waitForCallback installs the handles and the timer
BrowserOpened(c) ==
  /\ auth.calls[c].pc = "browser"
  /\ auth' = Stamp0([auth EXCEPT !.authResolve = {c}, !.authReject = {c},
                                 !.calls[c].pc = "wait",
                                 !.calls[c].timer = now + AUTH_TIMEOUT_MS])
  /\ UNCHANGED now
  /\ AuthUnchanged

\* open(url) threw
BrowserFailed(c) ==
  /\ auth.calls[c].pc = "browser"
  /\ auth' = Stamp0(Fail(auth, c, "Failed to open browser"))
  /\ UNCHANGED now
  /\ AuthUnchanged

\* a timer that never fires
Timeout_never(c) ==
  /\ FALSE
  /\ UNCHANGED vars

\* the setTimeout of waitForCallback fires
Timeout(c) ==
  /\ auth.calls[c].pc = "wait"
  /\ now >= auth.calls[c].timer
  /\ auth' = Stamp0(Fail(auth, c, "Authentication timeout (2 minutes)"))
  /\ UNCHANGED now
  /\ AuthUnchanged

\* the listener waitForCallback gives to onCancellationRequested:
\* clearTimeout, then reject, which does nothing to a settled promise
onCancellationRequested(a, c) ==
  IF a.calls[c].pc = "wait"
    THEN Fail(a, c, "Authentication cancelled by user")
    ELSE [a EXCEPT !.calls[c].timer = -1]

\* the token of call c is cancelled while waitForCallback is subscribed to
\* it and the promise is pending: the listener runs
Cancel(c) ==
  /\ auth.calls[c].pc = "wait"
  /\ auth.cancellation[c] = "none"
  /\ auth' = Stamp0(onCancellationRequested(
                      [auth EXCEPT !.cancellation[c] = "fired"], c))
  /\ UNCHANGED now
  /\ AuthUnchanged

\* the token of call c is cancelled in another phase of the call.  Before
\* waitForCallback nothing is subscribed to the token (authenticate, lines
\* 46-62, never reads it); after the promise settled the listener runs
CancelOutsideWait(c) ==
  /\ auth.calls[c].pc \in {"cleanup0", "port", "browser", "cleanup1", "done"}
  /\ auth.cancellation[c] = "none"
  /\ auth' = Stamp0(
       IF auth.calls[c].pc \in {"cleanup0", "port", "browser"}
         THEN [auth EXCEPT !.cancellation[c] = "requested"]
         ELSE onCancellationRequested([auth EXCEPT !.cancellation[c] = "fired"], c))
  /\ UNCHANGED now
  /\ AuthUnchanged

\* waitForCallback subscribed to a token that was cancelled already: the
\* token calls the listener from a timer of 0 ms
CancelDeferred(c) ==
  /\ auth.cancellation[c] = "requested"
  /\ auth.calls[c].pc \in {"wait", "cleanup1", "done"}
  /\ auth' = Stamp0(onCancellationRequested(
                      [auth EXCEPT !.cancellation[c] = "fired"], c))
  /\ UNCHANGED now
  /\ AuthUnchanged

\* cancel() on a token that is cancelled already: the token fires once, and
\* a listener that ran again would find the promise settled
CancelRepeat(c) ==
  /\ auth.cancellation[c] = "fired"
  /\ auth.calls[c].pc \in {"cleanup1", "done"}
  /\ auth' = Stamp0(onCancellationRequested(
                      [auth EXCEPT !.cancellation[c] = "repeated"], c))
  /\ UNCHANGED now
  /\ AuthUnchanged

Signatures ==
  {[signer |-> g, nonce |-> n] : g \in Signers, n \in Calls}
    \cup {[signer |-> "malformed", nonce |-> 0]}

\* a body with a field missing, and the bodies with all three fields
Requests ==
  {[address |-> "", signature |-> [signer |-> "malformed", nonce |-> 0], nonce |-> 0]}
    \cup {[address |-> ad, signature |-> sg, nonce |-> n] :
             ad \in ReqAddresses, sg \in Signatures, n \in Calls}

\* ethers.verifyMessage: the signer when the signature is over this message,
\* some other address when it is over another message
recoverAddress(signature, nonce) ==
  IF signature.nonce = nonce THEN signature.signer ELSE "0xEE"

\* verifySignature: false when verifyMessage throws
verifySignature(address, signature, nonce) ==
  IF signature.signer = "malformed" THEN FALSE
  ELSE toLowerCase(recoverAddress(signature, nonce)) = toLowerCase(address)

nonceMatches_anyIssued(a, nonce) == nonce >= 1 /\ nonce <= a.issued

\* the callback's nonce check: nonce === this.authChallenge?.nonce
nonceMatches(a, nonce) == \E ch \in a.authChallenge : ch.nonce = nonce

challengeExpired_never(a, t) == FALSE

\* the callback's expiry check: Date.now() > (this.authChallenge?.expiresAt || 0)
challengeExpired(a, t) ==
  IF a.authChallenge = {} THEN t > 0
  ELSE \E ch \in a.authChallenge : t > ch.expiresAt

\* the status the /callback handler answers with
callbackStatus(a, req) ==
  IF req.address = "" THEN 400
  ELSE IF ~nonceMatches(a, req.nonce) THEN 400
  ELSE IF challengeExpired(a, now) THEN 400
  ELSE IF ~verifySignature(req.address, req.signature, req.nonce) THEN 400
  ELSE 200

\* what the handler saw: the request, the clock and the challenge
CbRecord(a, req, status, resolved) ==
  [kind |-> "callback", address |-> req.address, signature |-> req.signature,
   nonce |-> req.nonce, at |-> now,
   challenge |-> a.authChallenge, latest |-> a.issued,
   repeat |-> req.nonce \in a.answered,
   status |-> status, resolved |-> resolved]

\* the /callback handler: the answer, and authResolve on a 200
handleCallback(a, req) ==
  LET status == callbackStatus(a, req)
      target == IF status = 200
                  THEN {d \in a.authResolve : a.calls[d].pc = "wait"}
                  ELSE {}
      counted == IF status = 200
                   THEN [a EXCEPT !.answered = @ \cup {req.nonce}]
                   ELSE a
      rec == CbRecord(a, req, status, target)
      resolved ==
        IF target = {} THEN counted
        ELSE LET d == CHOOSE x \in target : TRUE
             IN  Succeed([counted EXCEPT !.calls[d].resolvedBy = {rec}], d, req.address)
  IN  [resolved EXCEPT !.lastCb = rec]

\* POST /callback on a server that is listening or still closing
Callback(req) ==
  /\ \E s \in Calls : auth.servers[s] \in {"listening", "closing"}
  /\ auth' = handleCallback(auth, req)
  /\ UNCHANGED now
  /\ AuthUnchanged

\* the same request with no record kept of the answer
CallbackUnobserved(req) ==
  /\ \E s \in Calls : auth.servers[s] \in {"listening", "closing"}
  /\ auth' = [handleCallback(auth, req) EXCEPT !.lastCb = NoCb, !.answered = {}]
  /\ UNCHANGED now
  /\ AuthUnchanged

AuthNext ==
  \/ AuthTickStep
  \/ \E c \in Calls : AuthStart(c)
  \/ \E s \in Calls : CloseDone(s)
  \/ \E c \in Calls : PortListening(c)
  \/ \E c \in Calls : PortListenError(c)
  \/ \E c \in Calls : PortExhausted(c)
  \/ \E c \in Calls : BrowserOpened(c)
  \/ \E c \in Calls : BrowserFailed(c)
  \/ \E c \in Calls : Timeout(c)
  \/ \E c \in Calls : Cancel(c)
  \/ \E req \in Requests : Callback(req)

AuthSpec == AuthInit /\ [][AuthNext]_vars

(***************************************************************************)
(* The same service with the cancellation token of each call as the host   *)
(* gives it (cancellable in every phase of the call), a clock that runs    *)
(* until every timer set is due, and the progress the runtime provides:    *)
(* timers fire, listen and open() complete, and the connections of a       *)
(* closing server end (keepAliveTimeout, headersTimeout, requestTimeout).  *)
(***************************************************************************)
MaxLiveTicks == 1

\* the clock advances, and keeps advancing while a timer set is not yet due
LiveTick ==
  /\ \/ now < MaxLiveTicks * AuthTick
     \/ \E c \in Calls : auth.calls[c].pc = "wait" /\ now < auth.calls[c].timer
  /\ now' = now + AuthTick
  /\ auth' = Stamp0(auth)
  /\ AuthUnchanged

\* a well-formed callback for either nonce, and one with a bad signature
LiveRequests ==
  {[address |-> "0xab", signature |-> [signer |-> "0xAB", nonce |-> n], nonce |-> n] :
     n \in Calls}
    \cup {[address |-> "0xab", signature |-> [signer |-> "malformed", nonce |-> 0],
           nonce |-> 1]}

\* findAvailablePort and listen come to one of their outcomes
PortOutcome(c) == PortListening(c) \/ PortListenError(c) \/ PortExhausted(c)

\* open(url) resolves or throws
BrowserOutcome(c) == BrowserOpened(c) \/ BrowserFailed(c)

AuthLiveNext ==
  \/ LiveTick
  \/ \E c \in Calls : AuthStart(c)
  \/ \E s \in Calls : CloseDone(s)
  \/ \E c \in Calls : PortOutcome(c)
  \/ \E c \in Calls : BrowserOutcome(c)
  \/ \E c \in Calls : Timeout(c)
  \/ \E c \in Calls : Cancel(c)
  \/ \E c \in Calls : CancelOutsideWait(c)
  \/ \E c \in Calls : CancelDeferred(c)
  \/ \E c \in Calls : CancelRepeat(c)
  \/ \E req \in LiveRequests : CallbackUnobserved(req)

AuthLiveFairness ==
  /\ WF_vars(LiveTick)
  /\ \A c \in Calls :
       /\ WF_vars(CloseDone(c))
       /\ WF_vars(PortOutcome(c))
       /\ WF_vars(BrowserOutcome(c))
       /\ WF_vars(Timeout(c))

AuthLiveSpec == AuthInit /\ [][AuthLiveNext]_vars /\ AuthLiveFairness

(***************************************************************************)
(* DatasetController, the commands of the extension, SidebarProvider and   *)
(* StorageService.  The clock of CtlSpec counts days.  authenticate() is   *)
(* taken by what it returns; the backend and the file dialogs by what      *)
(* they answer.                                                            *)
(***************************************************************************)
Day == 1
MaxCtlTime == 2
\* the setting quantifyx.walletSessionTimeout, in days
WalletSessionTimeoutDays == 1

CtlAddresses == {"0xab", "0xcd"}
LocalId == "local_QmTest"
CtlTokenIds == {"7", LocalId}
\* the keys the backend returns and the payloads it serves, by name
CtlKeys == {"keyA", "keyB"}
CtlData == {"fernet", "simple"}

keyString(k) == IF k = "keyA" THEN KeyA ELSE KeyB

\* a token sealed under keyA, and a payload in the fallback format under keyA
dataBytes(d) == IF d = "fernet" THEN TokenA ELSE MakeSimple(KeyA, IvA, PlainA)

\* this.decryptionService.decrypt on the inputs of CtlSpec
CtlDecrypt ==
  [v \in Variants, d \in CtlData, k \in CtlKeys |->
     decrypt(v, dataBytes(d), keyString(k))]

\* lastOp after a step that neither stores nor removes an entry
Quiet == [kind |-> "other", id |-> "", at |-> 0, pre |-> {}]

IdleJob ==
  [kind |-> "none", pc |-> "", tokenId |-> "", wallet |-> "", key |-> {},
   expiry |-> {}, data |-> "", stored |-> FALSE]

Disconnected == [walletAddress |-> "", connectedAt |-> 0, isConnected |-> FALSE]

CtlInit ==
  /\ now = 0
  /\ datasets = EmptyMap
  /\ lastOp = [kind |-> "init", id |-> "", at |-> 0, pre |-> {}]
  /\ ret = NoRet
  /\ auth = NoAuth
  /\ codec = NoCodec
  /\ \E v \in Variants :
       ctl = [variant |-> v, currentSession |-> {}, persisted |-> {}, verified |-> {},
              connecting |-> FALSE, restore |-> "check", job |-> IdleJob,
              lock |-> {}, clearPending |-> FALSE]

\* getSessionTimeoutMs
getSessionTimeoutMs == WalletSessionTimeoutDays * Day

\* setUserSession: the current session, then persistSession or clearPersistedSession
setUserSession(c, session) ==
  [c EXCEPT !.currentSession = {session},
            !.persisted = IF session.isConnected
                            THEN {[walletAddress |-> session.walletAddress,
                                   connectedAt |-> session.connectedAt,
                                   lastVerified |-> now]}
                            ELSE {}]

\* this.currentSession && this.currentSession.isConnected
isConnected(c) == \E ss \in c.currentSession : ss.isConnected

\* this.currentSession!.walletAddress
sessionWallet(c) == (CHOOSE ss \in c.currentSession : TRUE).walletAddress

CtlFrame == UNCHANGED <<auth, codec>>

CtlTick ==
  /\ now < MaxCtlTime
  /\ now' = now + 1
  /\ lastOp' = Quiet
  /\ ret' = NoRet
  /\ UNCHANGED <<datasets, ctl>>
  /\ CtlFrame

\* the command quantifyx.connectWallet calls authenticate()
ConnectWalletCommand ==
  /\ ~ctl.connecting
  /\ ctl' = [ctl EXCEPT !.connecting = TRUE]
  /\ lastOp' = Quiet
  /\ ret' = NoRet
  /\ UNCHANGED <<now, datasets>>
  /\ CtlFrame

AuthResults ==
  {[success |-> TRUE, walletAddress |-> a] : a \in CtlAddresses}
    \cup {[success |-> FALSE, walletAddress |-> ""]}

\* authenticate() returns to the command: a success result becomes the session
AuthenticateReturns(result) ==
  /\ ctl.connecting
  /\ ctl' = IF result.success /\ result.walletAddress # ""
              THEN setUserSession(
                     [ctl EXCEPT !.connecting = FALSE,
                                 !.verified = @ \cup {result.walletAddress}],
                     [walletAddress |-> result.walletAddress, connectedAt |-> now,
                      isConnected |-> TRUE])
              ELSE [ctl EXCEPT !.connecting = FALSE]
  /\ lastOp' = Quiet
  /\ ret' = NoRet
  /\ UNCHANGED <<now, datasets>>
  /\ CtlFrame

\* SidebarProvider.handleWalletConnected: the webview's message
handleWalletConnected(address) ==
  /\ ctl' = IF address = "" THEN ctl
            ELSE setUserSession(ctl, [walletAddress |-> address, connectedAt |-> now,
                                      isConnected |-> TRUE])
  /\ lastOp' = Quiet
  /\ ret' = NoRet
  /\ UNCHANGED <<now, datasets>>
  /\ CtlFrame

disconnectWallet_clearsStore ==
  /\ ctl' = setUserSession(ctl, Disconnected)
  /\ datasets' = EmptyMap
  /\ lastOp' = Quiet
  /\ ret' = NoRet
  /\ UNCHANGED now
  /\ CtlFrame

\* the command quantifyx.disconnectWallet, SidebarProvider.handleDisconnectWallet
disconnectWallet ==
  /\ ctl' = setUserSession(ctl, Disconnected)
  /\ lastOp' = Quiet
  /\ ret' = NoRet
  /\ UNCHANGED <<now, datasets>>
  /\ CtlFrame

Reactivate_keepsStore(autoConnect) ==
  /\ ctl' = [ctl EXCEPT !.currentSession = {}, !.connecting = FALSE,
                        !.restore = IF autoConnect THEN "check" ELSE "idle",
                        !.job = IdleJob, !.lock = {}, !.clearPending = FALSE]
  /\ lastOp' = Op("dispose", "", {})
  /\ ret' = NoRet
  /\ UNCHANGED <<now, datasets>>
  /\ CtlFrame

\* the extension is deactivated (datasetManager.dispose) and activated anew:
\* a new controller and store, calls in flight are gone, globalState stays
Reactivate(autoConnect) ==
  /\ ctl' = [ctl EXCEPT !.currentSession = {}, !.connecting = FALSE,
                        !.restore = IF autoConnect THEN "check" ELSE "idle",
                        !.job = IdleJob, !.lock = {}, !.clearPending = FALSE]
  /\ datasets' = EmptyMap
  /\ lastOp' = Op("dispose", "", {})
  /\ ret' = NoRet
  /\ UNCHANGED now
  /\ CtlFrame

RestoreCheck_expiresAtTimeout ==
  /\ ctl.restore = "check"
  /\ ctl' = IF ctl.persisted = {} THEN [ctl EXCEPT !.restore = "idle"]
            ELSE LET ps == CHOOSE x \in ctl.persisted : TRUE
                 IN  IF now - ps.lastVerified >= getSessionTimeoutMs
                       THEN [ctl EXCEPT !.restore = "idle", !.persisted = {}]
                       ELSE [ctl EXCEPT !.restore = "load"]
  /\ lastOp' = [Quiet EXCEPT !.kind = "isSessionValid", !.pre = ctl.persisted]
  /\ ret' = NoRet
  /\ UNCHANGED <<now, datasets>>
  /\ CtlFrame

\* restoreWalletSession, loadPersistedSession: isSessionValid, which clears
\* the persisted session it finds expired
RestoreCheck ==
  /\ ctl.restore = "check"
  /\ ctl' = IF ctl.persisted = {} THEN [ctl EXCEPT !.restore = "idle"]
            ELSE LET ps == CHOOSE x \in ctl.persisted : TRUE
                 IN  IF now - ps.lastVerified > getSessionTimeoutMs
                       THEN [ctl EXCEPT !.restore = "idle", !.persisted = {}]
                       ELSE [ctl EXCEPT !.restore = "load"]
  /\ lastOp' = [Quiet EXCEPT !.kind = "isSessionValid", !.pre = ctl.persisted]
  /\ ret' = NoRet
  /\ UNCHANGED <<now, datasets>>
  /\ CtlFrame

\* restoreWalletSession: loadWalletSession, then setUserSession
RestoreLoad ==
  /\ ctl.restore = "load"
  /\ ctl' = IF ctl.persisted = {} THEN [ctl EXCEPT !.restore = "idle"]
            ELSE LET ps == CHOOSE x \in ctl.persisted : TRUE
                 IN  setUserSession([ctl EXCEPT !.restore = "idle"],
                                    [walletAddress |-> ps.walletAddress,
                                     connectedAt |-> ps.connectedAt,
                                     isConnected |-> TRUE])
  /\ lastOp' = [Quiet EXCEPT !.kind = "loadWalletSession", !.pre = ctl.persisted]
  /\ ret' = NoRet
  /\ UNCHANGED <<now, datasets>>
  /\ CtlFrame

\* what the backend answers to verifyRentalStatus and verifyAccessByCid
VerifyResponses ==
  {[success |-> FALSE, is_valid |-> FALSE, decryption_key |-> {}, expiryTimestamp |-> {}],
   [success |-> TRUE, is_valid |-> TRUE, decryption_key |-> {}, expiryTimestamp |-> {}]}
    \cup {[success |-> TRUE, is_valid |-> TRUE, decryption_key |-> {k},
           expiryTimestamp |-> e] : k \in CtlKeys, e \in {{}, {Day}}}

\* the job ends and the workflow returns
Return(c) == [c EXCEPT !.job = IdleJob]

\* storeDataset, notifyFileCreated, then openDataset up to its first await:
\* getDatasetInfo evicts an entry that is already expired
storeAndOpen(m, dataset) == getDatasetMap(MapSet(m, dataset), dataset.tokenId, now)

\* what a step that ran decrypt leaves in lastOp
DecryptFacts(job, key, out) ==
  {[wallet |-> job.wallet, keyReturned |-> key # {}, decryptOk |-> out.ok,
    value |-> out.value]}

\* after decrypt: a failed decrypt ends the workflow; plaintext is stored
\* with the caller's Date.now() and the dataset is opened
storeDecrypted(out, tokenId, filename, expiryTimestamp, key) ==
  IF ~out.ok
    THEN /\ ctl' = Return(ctl)
         /\ ret' = NoRet
         /\ lastOp' = Quiet
         /\ UNCHANGED datasets
    ELSE /\ datasets' = storeAndOpen(datasets,
                           Dataset(tokenId, out.value, filename, now, expiryTimestamp))
         /\ ctl' = IF tokenId \in DOMAIN datasets'
                     THEN [ctl EXCEPT !.job.pc = "open", !.job.stored = TRUE,
                                      !.job.key = key]
                     ELSE Return(ctl)
         /\ ret' = [NoRet EXCEPT !.events = notifyFileCreated(tokenId, filename)]
         /\ lastOp' = Op("storeDataset", tokenId, DecryptFacts(ctl.job, key, out))

\* unlockDataset up to its first await: the session check, hasDataset, and
\* the request to the backend for the session's wallet
unlockDataset(tokenId) ==
  /\ ctl.job.kind = "none"
  /\ IF ~isConnected(ctl)
       THEN /\ ctl' = ctl
            /\ ret' = NoRet
       ELSE IF hasDataset(datasets, tokenId, now)
         THEN /\ ctl' = [ctl EXCEPT !.job = [IdleJob EXCEPT !.kind = "unlock", !.pc = "open",
                                                          !.tokenId = tokenId]]
              /\ ret' = NoRet
         ELSE /\ ctl' = [ctl EXCEPT !.job = [IdleJob EXCEPT !.kind = "unlock", !.pc = "verify",
                                                          !.tokenId = tokenId,
                                                          !.wallet = sessionWallet(ctl)]]
              /\ ret' = NoRet
  /\ lastOp' = [Quiet EXCEPT !.kind = "unlockDataset", !.id = tokenId]
  /\ UNCHANGED <<now, datasets>>
  /\ CtlFrame

\* unlockDataset, lines 130-142: the backend's answer
UnlockVerified(resp) ==
  /\ ctl.job.kind = "unlock" /\ ctl.job.pc = "verify"
  /\ IF ~resp.success \/ ~resp.is_valid \/ resp.decryption_key = {}
       THEN /\ ctl' = Return(ctl)
            /\ ret' = NoRet
       ELSE /\ ctl' = [ctl EXCEPT !.job.pc = "download",
                                  !.job.key = resp.decryption_key,
                                  !.job.expiry = resp.expiryTimestamp]
            /\ ret' = NoRet
  /\ lastOp' = Quiet
  /\ UNCHANGED <<now, datasets>>
  /\ CtlFrame

\* unlockDataset, lines 144-178: the download's answer, decrypt, storeDataset
\* and openDataset up to its await
UnlockDownloaded(data) ==
  /\ ctl.job.kind = "unlock" /\ ctl.job.pc = "download"
  /\ IF data = {}
       THEN /\ ctl' = Return(ctl)
            /\ ret' = NoRet
            /\ lastOp' = Quiet
            /\ UNCHANGED datasets
       ELSE
         storeDecrypted(CtlDecrypt[ctl.variant, CHOOSE d \in data : TRUE,
                                   CHOOSE k \in ctl.job.key : TRUE],
                        ctl.job.tokenId, "dataset_7_QmTest.csv",
                        IF ctl.job.expiry = {} \/ ctl.job.expiry = {0}
                          THEN now + 7 * Day
                          ELSE CHOOSE e \in ctl.job.expiry : TRUE,
                        ctl.job.key)
  /\ UNCHANGED now
  /\ CtlFrame

\* openDataset's openTextDocument and showTextDocument are over
OpenDone(opened) ==
  /\ ctl.job.kind # "none" /\ ctl.job.pc = "open"
  /\ ctl' = Return(ctl)
  /\ ret' = NoRet
  /\ lastOp' = Quiet
  /\ UNCHANGED <<now, datasets>>
  /\ CtlFrame

\* openLocalFile up to showOpenDialog
openLocalFile ==
  /\ ctl.job.kind = "none"
  /\ IF ~isConnected(ctl)
       THEN /\ ctl' = ctl
            /\ ret' = NoRet
       ELSE /\ ctl' = [ctl EXCEPT !.job = [IdleJob EXCEPT !.kind = "local", !.pc = "pick",
                                                        !.tokenId = LocalId]]
            /\ ret' = NoRet
  /\ lastOp' = Quiet
  /\ UNCHANGED <<now, datasets>>
  /\ CtlFrame

\* openLocalFile, lines 214-245: the dialog's answer and the CID in the name
LocalPicked(choice) ==
  /\ ctl.job.kind = "local" /\ ctl.job.pc = "pick"
  /\ IF choice = "cid"
       THEN /\ ctl' = [ctl EXCEPT !.job.pc = "read"]
            /\ ret' = NoRet
       ELSE /\ ctl' = Return(ctl)
            /\ ret' = NoRet
  /\ lastOp' = Quiet
  /\ UNCHANGED <<now, datasets>>
  /\ CtlFrame

\* openLocalFile, lines 245-252: the file's bytes, then the request to the
\* backend for the wallet of the session as it is now
LocalRead(content) ==
  /\ ctl.job.kind = "local" /\ ctl.job.pc = "read"
  /\ IF content = {}
       THEN /\ ctl' = Return(ctl)
            /\ ret' = NoRet
       ELSE /\ ctl' = [ctl EXCEPT !.job.pc = "verify",
                                  !.job.data = CHOOSE d \in content : TRUE,
                                  !.job.wallet = sessionWallet(ctl)]
            /\ ret' = NoRet
  /\ lastOp' = Quiet
  /\ UNCHANGED <<now, datasets>>
  /\ CtlFrame

\* openLocalFile, lines 254-295: the backend's answer, decrypt, storeDataset
\* and openDataset up to its await
LocalVerified(resp) ==
  /\ ctl.job.kind = "local" /\ ctl.job.pc = "verify"
  /\ IF ~resp.success \/ resp.decryption_key = {}
       THEN /\ ctl' = Return(ctl)
            /\ ret' = NoRet
            /\ lastOp' = Quiet
            /\ UNCHANGED datasets
       ELSE
         storeDecrypted(CtlDecrypt[ctl.variant, ctl.job.data,
                                   CHOOSE k \in resp.decryption_key : TRUE],
                        LocalId, "QmTest_decrypted.csv", now + Day, resp.decryption_key)
  /\ UNCHANGED now
  /\ CtlFrame

\* lockDataset up to its modal: getDatasetInfo.  One modal dialog is open
\* at a time, and commands are not run while it is.
lockDataset(tokenId) ==
  /\ ctl.lock = {} /\ ~ctl.clearPending
  /\ datasets' = getDatasetMap(datasets, tokenId, now)
  /\ ctl' = [ctl EXCEPT !.lock = {[tokenId |-> i.tokenId, filename |-> i.filename] :
                                      i \in getDatasetInfo(datasets, tokenId, now)}]
  /\ lastOp' = IF datasets' # datasets THEN Op("evict", tokenId, Lookup(datasets, tokenId))
                ELSE Quiet
  /\ ret' = NoRet
  /\ UNCHANGED now
  /\ CtlFrame

\* lockDataset, lines 345-353: the modal's answer; removeDataset's result is
\* dropped, the event carries the filename read before the modal, and the
\* call returns true
LockConfirmed(confirm) ==
  /\ ctl.lock # {}
  /\ LET info == CHOOSE x \in ctl.lock : TRUE
     IN  /\ datasets' = IF confirm = "Remove" THEN MapDelete(datasets, info.tokenId)
                        ELSE datasets
         /\ lastOp' = IF confirm = "Remove"
                        THEN Op("removeDataset", info.tokenId, Lookup(datasets, info.tokenId))
                        ELSE Quiet
         /\ ret' = IF confirm = "Remove"
                     THEN [NoRet EXCEPT !.flag = TRUE,
                                        !.events =
                                          notifyFileDeleted(info.tokenId, info.filename)]
                     ELSE NoRet
  /\ ctl' = [ctl EXCEPT !.lock = {}]
  /\ UNCHANGED now
  /\ CtlFrame

\* clearAllDatasets up to its modal
clearAllDatasets ==
  /\ ~ctl.clearPending /\ ctl.lock = {}
  /\ ctl' = [ctl EXCEPT !.clearPending = (DOMAIN datasets # {})]
  /\ lastOp' = Quiet
  /\ ret' = NoRet
  /\ UNCHANGED <<now, datasets>>
  /\ CtlFrame

\* clearAllDatasets, lines 394-399: the modal's answer
ClearAllConfirmed(confirm) ==
  /\ ctl.clearPending
  /\ datasets' = IF confirm = "Remove All" THEN EmptyMap ELSE datasets
  /\ ctl' = [ctl EXCEPT !.clearPending = FALSE]
  /\ lastOp' = IF confirm = "Remove All" THEN Op("clearAll", "", {}) ELSE Quiet
  /\ ret' = NoRet
  /\ UNCHANGED now
  /\ CtlFrame

\* DatasetFileSystemProvider.readFile
readFile(uri) ==
  /\ datasets' = IF extractTokenId(uri) = {} THEN datasets
                 ELSE getDatasetMap(datasets, uri.authority, now)
  /\ ret' = NoRet
  /\ lastOp' = IF datasets' # datasets
                  THEN Op("evict", uri.authority, Lookup(datasets, uri.authority))
                  ELSE Quiet
  /\ UNCHANGED <<now, ctl>>
  /\ CtlFrame

\* the setInterval callback of the store
CtlSweep ==
  /\ datasets' = cleanupExpiredDatasets(datasets, now)
  /\ lastOp' = IF datasets' # datasets THEN Op("sweep", "", {}) ELSE Quiet
  /\ ret' = NoRet
  /\ UNCHANGED <<now, ctl>>
  /\ CtlFrame

\* the session of the controller: connect, disconnect, restart and restore
SessionNext ==
  \/ CtlTick
  \/ ConnectWalletCommand
  \/ \E r \in AuthResults : AuthenticateReturns(r)
  \/ \E a \in CtlAddresses \cup {""} : handleWalletConnected(a)
  \/ disconnectWallet
  \/ \E b \in BOOLEAN : Reactivate(b)
  \/ RestoreCheck
  \/ RestoreLoad

SessionSpec == CtlInit /\ [][SessionNext]_vars

\* the workflows of the controller over the store, with the session set from
\* the sidebar
CtlNext ==
  \/ CtlTick
  \/ \E a \in CtlAddresses \cup {""} : handleWalletConnected(a)
  \/ disconnectWallet
  \/ \E b \in BOOLEAN : Reactivate(b)
  \/ RestoreCheck
  \/ RestoreLoad
  \/ unlockDataset("7")
  \/ \E resp \in VerifyResponses : UnlockVerified(resp)
  \/ \E data \in {{}} \cup {{d} : d \in CtlData} : UnlockDownloaded(data)
  \/ \E opened \in BOOLEAN : OpenDone(opened)
  \/ openLocalFile
  \/ \E choice \in {"cancel", "noCid", "cid"} : LocalPicked(choice)
  \/ \E content \in {{}} \cup {{d} : d \in CtlData} : LocalRead(content)
  \/ \E resp \in VerifyResponses : LocalVerified(resp)
  \/ \E id \in CtlTokenIds : lockDataset(id)
  \/ \E confirm \in {"Remove", ""} : LockConfirmed(confirm)
  \/ clearAllDatasets
  \/ \E confirm \in {"Remove All", ""} : ClearAllConfirmed(confirm)
  \/ \E id \in CtlTokenIds \cup {""} : readFile(Uri(id, "data.csv"))
  \/ CtlSweep

CtlSpec == CtlInit /\ [][CtlNext]_vars

(***************************************************************************)
(* Claims about the store and the virtual filesystem (under Spec)          *)
(***************************************************************************)
FsWriteOps == {"writeFile", "delete", "rename", "createDirectory"}

\* C1: getDataset never returns an entry whose expiry has passed
\* (now > expiryTimestamp); when it finds such an entry it removes it from
\* the map and returns null, whatever the sweep did or did not do before.
C1_GetNeverReturnsExpired ==
  lastOp.kind = "getDataset" =>
    /\ \A d \in ret.val : ~(lastOp.at > d.expiryTimestamp)
    /\ \A d \in lastOp.pre :
         lastOp.at > d.expiryTimestamp =>
           ret.val = {} /\ lastOp.id \notin DOMAIN datasets

\* C1 witness: a read found an entry past its expiry and returned null
C1_Witness ==
  /\ lastOp.kind = "getDataset"
  /\ \E d \in lastOp.pre : lastOp.at > d.expiryTimestamp
  /\ ret.val = {}
  /\ lastOp.id \notin DOMAIN datasets

\* C2 as stated: a read at a time < E returns the secret and a read at a
\* time >= E, a read at exactly E included, returns null.
C2_ReadAtExpiryIsNotFound ==
  lastOp.kind = "getDataset" =>
    \A d \in lastOp.pre :
      /\ lastOp.at < d.expiryTimestamp => ret.val = {d}
      /\ lastOp.at >= d.expiryTimestamp => ret.val = {}

\* C2 amended: a read at a time <= E returns the secret (a read at exactly E
\* included) and a read at a time > E returns null.
C2_ReadUntilExpiry ==
  lastOp.kind = "getDataset" =>
    \A d \in lastOp.pre :
      /\ lastOp.at <= d.expiryTimestamp => ret.val = {d}
      /\ lastOp.at > d.expiryTimestamp => ret.val = {}

\* C2 witness: a read at exactly E returned the entry
C2_Witness ==
  /\ lastOp.kind = "getDataset"
  /\ \E d \in lastOp.pre : lastOp.at = d.expiryTimestamp /\ ret.val = {d}

\* C3: writeFile, delete, rename and createDirectory always throw
\* NoPermissions and leave the store's map as it was.
C3_WritesDeniedStoreUnchanged ==
  [][lastOp'.kind \in FsWriteOps =>
       ret'.err = "NoPermissions" /\ datasets' = datasets]_vars

\* C3 witness: a write was refused while the addressed entry was held
C3_Witness ==
  /\ lastOp.kind \in FsWriteOps
  /\ lastOp.id \in DOMAIN datasets
  /\ ret.err = "NoPermissions"

\* C24: removeDataset(id) returns true iff the map held an entry for id when
\* it was called, and afterwards holds none; so a removeDataset(id) right
\* after a removeDataset(id) returns false, and the entries under other
\* identifiers are as they were.
C24_RemoveReturnsWhetherExisted ==
  [][lastOp'.kind = "removeDataset" =>
       /\ ret'.flag = (lastOp'.id \in DOMAIN datasets)
       /\ lastOp'.id \notin DOMAIN datasets'
       /\ (lastOp.kind = "removeDataset" /\ lastOp.id = lastOp'.id) => ~ret'.flag
       /\ \A other \in TokenIds \ {lastOp'.id} :
            Lookup(datasets', other) = Lookup(datasets, other)]_vars

\* C24 witness: removeDataset("7") returned true for a held entry while an
\* entry under "8" stayed in the map
C24_Witness ==
  /\ lastOp.kind = "removeDataset"
  /\ lastOp.id = "7"
  /\ lastOp.pre # {}
  /\ ret.flag
  /\ "7" \notin DOMAIN datasets
  /\ "8" \in DOMAIN datasets

\* the sum of the plaintext sizes of the entries under ids
RECURSIVE PlaintextBytes(_, _)
PlaintextBytes(m, ids) ==
  IF ids = {} THEN 0
  ELSE LET i == CHOOSE x \in ids : TRUE
       IN  Len(m[i].content) + PlaintextBytes(m, ids \ {i})

\* the identifiers of the per-entry records of a statistics value
CountedIds(st) == {e.tokenId : e \in st.datasets}

\* C25: getMemoryStats reports the number of entries held, the sum of their
\* plaintext sizes, and one record per held entry whose remaining time is
\* max(0, expiry - now); right after clearAll it reports 0 entries and 0
\* bytes, and right after a sweep, or a read of an entry, no entry whose
\* expiry had passed at that sweep or read is counted.
C25_StatsCountHeldEntries ==
  /\ [](lastOp.kind = "getMemoryStats" =>
          \E st \in ret.val :
            /\ ret.val = {st}
            /\ st.datasetCount = Cardinality(DOMAIN datasets)
            /\ st.totalSizeBytes = PlaintextBytes(datasets, DOMAIN datasets)
            /\ Cardinality(st.datasets) = st.datasetCount
            /\ CountedIds(st) = DOMAIN datasets
            /\ \A e \in st.datasets :
                 LET d == datasets[e.tokenId]
                 IN  /\ e.filename = d.filename
                     /\ e.expiresIn >= 0
                     /\ e.expiresIn >= d.expiryTimestamp - lastOp.at
                     /\ e.expiresIn \in {0, d.expiryTimestamp - lastOp.at})
  /\ [][lastOp'.kind = "getMemoryStats" =>
         \A st \in ret'.val :
           /\ lastOp.kind = "clearAll" =>
                (st.datasetCount = 0 /\ st.totalSizeBytes = 0 /\ st.datasets = {})
           /\ lastOp.kind = "sweep" =>
                \A e \in st.datasets :
                  ~(datasets[e.tokenId].expiryTimestamp < lastOp.at)
           /\ lastOp.kind \in {"getDataset", "readFile"} =>
                \A d \in lastOp.pre :
                  lastOp.at > d.expiryTimestamp => lastOp.id \notin CountedIds(st)]_vars

\* C25 witness: statistics taken while two entries are held, one with bytes
\* and time left, the other past its expiry and not yet evicted
C25_Witness ==
  /\ lastOp.kind = "getMemoryStats"
  /\ \E st \in ret.val :
       /\ st.datasetCount = 2
       /\ st.totalSizeBytes = 2
       /\ \E e \in st.datasets : e.expiresIn > 0
       /\ \E e \in st.datasets :
            e.expiresIn = 0 /\ datasets[e.tokenId].expiryTimestamp < lastOp.at

\* C26: readFile returns exactly the bytes the store holds for the addressed
\* identifier, and throws FileNotFound when the store holds no entry for it or
\* the entry's expiry has passed; the bytes held under an identifier are those
\* of the last storeDataset for it, as nothing else changes or creates them.
C26_ReadFileReturnsHeldBytes ==
  /\ [](lastOp.kind = "readFile" =>
          /\ lastOp.pre = {} => (ret.val = {} /\ ret.err = "FileNotFound")
          /\ \A d \in lastOp.pre :
               /\ lastOp.at > d.expiryTimestamp =>
                    (ret.val = {} /\ ret.err = "FileNotFound")
               /\ lastOp.at <= d.expiryTimestamp =>
                    (ret.val = {d.content} /\ ret.err = ""))
  /\ [][\A id \in DOMAIN datasets' :
          (id \notin DOMAIN datasets \/ datasets'[id].content # datasets[id].content) =>
            (lastOp'.kind = "storeDataset" /\ lastOp'.id = id)]_vars

\* C26 witness: readFile returned the two bytes held under "7", read at the
\* last instant before the entry is expired
C26_Witness ==
  /\ lastOp.kind = "readFile"
  /\ lastOp.id = "7"
  /\ \E d \in lastOp.pre : lastOp.at = d.expiryTimestamp /\ d.content = <<104, 105>>
  /\ ret.val = {<<104, 105>>}
  /\ "7" \in DOMAIN datasets

\* C27: stat either throws FileNotFound or returns metadata of the stored
\* entry: size equal to the byte length of the stored plaintext, and ctime and
\* mtime equal to its decryptedAt; it never returns another size.
C27_StatSizeIsPlaintextLength ==
  lastOp.kind = "stat" =>
    /\ ret.val = {} => ret.err = "FileNotFound"
    /\ \A st \in ret.val :
         \E d \in lastOp.pre :
           /\ st.size = Len(d.content)
           /\ st.ctime = d.decryptedAt
           /\ st.mtime = d.decryptedAt

\* C29: each run of the sweep removes every entry whose expiry is earlier
\* than the sweep's clock reading and leaves every other entry as it was
\* (identifier, bytes, name, timestamps); right after a sweep no entry with
\* an expiry earlier than that reading is in the map.
C29_SweepRemovesExactlyExpired ==
  /\ [][lastOp'.kind = "sweep" =>
         \A id \in TokenIds :
           IF id \in DOMAIN datasets /\ datasets[id].expiryTimestamp < lastOp'.at
             THEN id \notin DOMAIN datasets'
             ELSE Lookup(datasets', id) = Lookup(datasets, id)]_vars
  /\ [](lastOp.kind = "sweep" =>
          \A id \in DOMAIN datasets : ~(datasets[id].expiryTimestamp < lastOp.at))

\* C29 witness: a sweep found two entries, removed the one whose expiry had
\* passed and kept the other, whose expiry is the sweep's clock reading
C29_Witness ==
  /\ lastOp.kind = "sweep"
  /\ \E gone, kept \in lastOp.pre :
       /\ gone.expiryTimestamp < lastOp.at
       /\ gone.tokenId \notin DOMAIN datasets
       /\ kept.expiryTimestamp = lastOp.at
       /\ Lookup(datasets, kept.tokenId) = {kept}

\* C30: get, put, remove and the sweep are atomic with respect to each other:
\* every step leaves each entry as it was, removes it entirely, or is a put of
\* it; a get returns nothing or the complete entry held before it; a get that
\* follows a sweep returns nothing or the complete pre-sweep entry; and at one
\* clock value a get observes the same with the sweep run before it or not.
C30_GetSweepAtomic ==
  /\ [][\/ datasets' = datasets
        \/ \A id \in DOMAIN datasets' :
             \/ id \in DOMAIN datasets /\ datasets'[id] = datasets[id]
             \/ lastOp'.kind = "storeDataset" /\ lastOp'.id = id]_vars
  /\ [](lastOp.kind = "getDataset" => ret.val \in {{}, lastOp.pre})
  /\ [][(lastOp.kind = "sweep" /\ lastOp'.kind = "getDataset") =>
          (ret'.val \subseteq lastOp.pre /\ Cardinality(ret'.val) <= 1)]_vars
  /\ [](\A id \in TokenIds :
          getDataset(cleanupExpiredDatasets(datasets, now), id, now)
            = getDataset(datasets, id, now))

\* C30 witness: a get returned a complete entry, bytes included, at a clock
\* value at which the sweep has another entry to evict
C30_Witness ==
  /\ lastOp.kind = "getDataset"
  /\ ret.val = lastOp.pre
  /\ \E d \in ret.val : d.content = <<104, 105>> /\ Lookup(datasets, d.tokenId) = {d}
  /\ \E other \in DOMAIN datasets :
       other # lastOp.id /\ sweepExpired(datasets[other], now)

\* the read requests: getDataset and hasDataset of the store, readFile (over
\* getDatasetContent) and stat (over getDatasetInfo and getDatasetContent)
ReadOps == {"getDataset", "hasDataset", "readFile", "stat"}

\* C31 as stated: read requests are non-mutating: stat, readFile, getDataset,
\* getDatasetContent, getDatasetInfo and hasDataset leave the store's map
\* unchanged.
C31_ReadsLeaveMapUnchanged ==
  [][lastOp'.kind \in ReadOps => datasets' = datasets]_vars

\* C31 amended: a read request changes the map in one way only: it removes
\* the entry it addresses when that entry's expiry has passed; every other
\* entry is left as it was, hasDataset writes nothing, and what a read
\* returns at a clock value is the same whether or not a read of any
\* identifier ran before it.
C31_ReadsEvictOnlyExpired ==
  /\ [][lastOp'.kind \in ReadOps =>
         \/ datasets' = datasets
         \/ /\ lastOp'.kind # "hasDataset"
            /\ DOMAIN datasets' = (DOMAIN datasets) \ {lastOp'.id}
            /\ \A id \in DOMAIN datasets' : datasets'[id] = datasets[id]
            /\ \A d \in lastOp'.pre : d.expiryTimestamp < now']_vars
  /\ [](\A id, other \in TokenIds :
          /\ getDataset(getDatasetMap(datasets, other, now), id, now)
               = getDataset(datasets, id, now)
          /\ hasDataset(getDatasetMap(datasets, other, now), id, now)
               = hasDataset(datasets, id, now))

\* C31 witness: a read found the entry it addressed past its expiry and
\* removed it, while the entry under the other identifier stayed in the map
C31_Witness ==
  /\ lastOp.kind \in ReadOps
  /\ \E d \in lastOp.pre : d.expiryTimestamp < lastOp.at
  /\ lastOp.id \notin DOMAIN datasets
  /\ \E other \in DOMAIN datasets : other # lastOp.id

\* the addresses with the identifier of u, whatever their display name
SameIdentifier(u) == {v \in Uris : v.authority = u}

\* C40: the virtual filesystem resolves an address by its identifier alone:
\* what a readFile or a stat returns or throws for an address is what it
\* would return or throw, in the same state and at the same clock readings,
\* for every address with the same identifier, whatever the display name is.
C40_AddressResolvedByIdentifier ==
  [][/\ (lastOp'.kind = "readFile" =>
          \A v \in SameIdentifier(lastOp'.id) :
            ret' = readFileResult(datasets, v, now))
     /\ (lastOp'.kind = "stat" =>
          \A v \in SameIdentifier(lastOp'.id) :
            ret' = statResult(datasets, v, now, now' - now))]_vars

\* C40 witness: readFile returned the bytes held under "7" for an address
\* whose display name is not the entry's filename
C40_Witness ==
  /\ lastOp.kind = "readFile"
  /\ lastOp.id = "7"
  /\ ret.val = {<<104, 105>>}
  /\ \E d \in lastOp.pre : d.filename # lastOp.path /\ d.content = <<104, 105>>

(***************************************************************************)
(* Claims about the decoder (under CodecSpec)                              *)
(***************************************************************************)
OpsOf(o) == {o.ops[i] : i \in 1..Len(o.ops)}

\* a precedes b in the operations of a call
RanBefore(o, a, b) ==
  \E i \in 1..Len(o.ops), j \in 1..Len(o.ops) : i < j /\ o.ops[i] = a /\ o.ops[j] = b

\* the token form the decoder examines
ExaminedToken ==
  IF codec.variant = "throwing" THEN unwrapToken(codec.data) ELSE codec.data

\* the tag embedded in the token is the tag of its body under the signing key
TagMatches(tok, key) ==
  /\ Len(tok) >= MIN_TOKEN_LEN
  /\ subarray(tok, Len(tok) - HMAC_LEN, Len(tok))
       = hmacSha256(subarray(base64UrlDecode(key), 0, 16),
                    subarray(tok, 0, Len(tok) - HMAC_LEN))

\* the cipher `c` ran only after length, version and tag were accepted
CipherAfterChecks(c) ==
  /\ Len(ExaminedToken) >= MIN_TOKEN_LEN
  /\ ExaminedToken[1] = VERSION
  /\ TagMatches(ExaminedToken, codec.key)
  /\ RanBefore(codec.out, "length", "version")
  /\ RanBefore(codec.out, "version", "hmac")
  /\ RanBefore(codec.out, "hmac", c)

\* C9 as stated: on every execution a block cipher runs only after length
\* and version were accepted and the tag matched; decryption is never
\* attempted on data whose tag was not verified.
C9_NoCipherOnUnverifiedData ==
  codec.fn \in {"decryptDataset", "decrypt"} =>
    \A c \in {"aes-128-cbc", "aes-256-cbc"} :
      c \in OpsOf(codec.out) => CipherAfterChecks(c)

\* C9 amended: in the primary decoder (decryptDataset, also when decrypt()
\* calls it) AES-128-CBC runs only after length and version were accepted
\* and the tag matched; the fallback decoder that decrypt() runs after any
\* primary failure has no tag and runs its cipher without one.
C9_PrimaryCipherAfterTag ==
  /\ "aes-128-cbc" \in OpsOf(codec.out) => CipherAfterChecks("aes-128-cbc")
  /\ (codec.fn = "decrypt" /\ ~decryptDataset(codec.variant, codec.data, codec.key).ok)
       => "aes-256-cbc" \in OpsOf(codec.out)

\* C9 witness: decrypt() ran the primary cipher on a verified token
C9_Witness ==
  /\ codec.fn = "decrypt"
  /\ codec.out.ok
  /\ "aes-128-cbc" \in OpsOf(codec.out)
  /\ TagMatches(ExaminedToken, codec.key)

\* a raw token that differs from a valid token (valid under `key`) in the
\* tag region only
TamperedOnlyInTag(data, key) ==
  /\ Len(data) >= MIN_TOKEN_LEN
  /\ data[1] = VERSION
  /\ Len(base64UrlDecode(key)) = KEY_LEN
  /\ cbcDecrypt(subarray(base64UrlDecode(key), 16, 32), subarray(data, 9, 25),
                subarray(data, 25, Len(data) - HMAC_LEN)).ok
  /\ ~TagMatches(data, key)

\* C10: for a token that differs from a valid token in the tag region only,
\* decryptDataset fails with "HMAC verification failed", never with a cipher
\* error, and the cipher is not run.
C10_TagTamperIsAuthenticationFailure ==
  (codec.fn = "decryptDataset" /\ TamperedOnlyInTag(codec.data, codec.key)) =>
    /\ ~codec.out.ok
    /\ codec.out.error = "HMAC verification failed"
    /\ "aes-128-cbc" \notin OpsOf(codec.out)

\* C10 witness: a token with its last tag byte changed was refused
C10_Witness ==
  /\ codec.fn = "decryptDataset"
  /\ TamperedOnlyInTag(codec.data, codec.key)
  /\ codec.data[Len(codec.data)] # TokenA[Len(TokenA)]
  /\ subarray(codec.data, 0, Len(codec.data) - 1) = subarray(TokenA, 0, Len(TokenA) - 1)
  /\ codec.out.error = "HMAC verification failed"

\* the tag embedded in the token the decoder examines, and the tag the
\* decoder computes for it
EmbeddedTag == subarray(ExaminedToken, Len(ExaminedToken) - HMAC_LEN, Len(ExaminedToken))
ComputedTag ==
  hmacSha256(subarray(base64UrlDecode(codec.key), 0, 16),
             subarray(ExaminedToken, 0, Len(ExaminedToken) - HMAC_LEN))

\* the number of leading bytes in which two tags agree
MatchingPrefix(a, b) ==
  Cardinality({i \in 1..Len(a) : \A j \in 1..i : j <= Len(b) /\ a[j] = b[j]})

CryptoOps == {"hmac", "aes-128-cbc", "sha256", "aes-256-cbc"}

\* the key material does not decode to 32 bytes
KeyLengthInvalid(key) == Len(base64UrlDecode(key)) # KEY_LEN

\* C11 as stated: for every key material blob whose decoded length is not 32
\* bytes the decoder fails with "Invalid key length", whatever the token, and
\* no tag computation or cipher operation ran before that failure.
C11_KeyLengthInvalidForEveryToken ==
  (codec.fn = "decryptDataset" /\ KeyLengthInvalid(codec.key)) =>
    /\ ~codec.out.ok
    /\ codec.out.error = "Invalid key length"
    /\ OpsOf(codec.out) \cap CryptoOps = {}

\* C11 amended: with key material that does not decode to 32 bytes,
\* decryptDataset always fails and runs no tag computation and no cipher;
\* the failure is "Invalid key length" when the token has at least 57 bytes
\* and the version byte, and the token's own error (too short, then wrong
\* version) otherwise, because the token's shape is examined first.  Under
\* decrypt() the fallback decoder then hashes that key material and runs
\* AES-256-CBC with it.
C11_KeyLengthCheckedAfterTokenShape ==
  /\ (codec.fn = "decryptDataset" /\ KeyLengthInvalid(codec.key)) =>
       /\ ~codec.out.ok
       /\ codec.out.thrown = (codec.variant = "throwing")
       /\ OpsOf(codec.out) \cap CryptoOps = {}
       /\ codec.out.error =
            IF Len(ExaminedToken) < MIN_TOKEN_LEN THEN "Invalid token: too short"
            ELSE IF ExaminedToken[1] # VERSION THEN "Invalid token version"
            ELSE "Invalid key length"
  /\ (codec.fn = "decrypt" /\ KeyLengthInvalid(codec.key)) =>
       /\ OpsOf(codec.out) \cap {"hmac", "aes-128-cbc"} = {}
       /\ {"sha256", "aes-256-cbc"} \subseteq OpsOf(codec.out)

\* C11 witness: a well-formed token whose tag is good under the first 16
\* bytes of the key material was refused for the key's length, 16 bytes
C11_Witness ==
  /\ codec.fn = "decryptDataset"
  /\ codec.data = TokenA
  /\ codec.key = KeyShort
  /\ Len(base64UrlDecode(codec.key)) = 16
  /\ codec.out.error = "Invalid key length"
  /\ codec.out.ops = <<"length", "version", "keyLength">>

\* C12: decrypt() runs the primary decoder first, runs the fallback decoder
\* only if the primary failed, returns the first success, and when both fail
\* surfaces the primary decoder's error to its caller: not the fallback's
\* error and not a null result.
C12_PrimaryErrorSurfaced ==
  codec.fn = "decrypt" =>
    LET first == decryptDataset(codec.variant, codec.data, codec.key)
        second == decryptSimple(codec.variant, codec.data, codec.key)
    IN  /\ subarray(codec.out.ops, 0, Len(first.ops)) = first.ops
        /\ ("aes-256-cbc" \in OpsOf(codec.out)) <=> ~first.ok
        /\ first.ok => (codec.out.ok /\ codec.out.value = first.value)
        /\ (~first.ok /\ second.ok) => (codec.out.ok /\ codec.out.value = second.value)
        /\ (~first.ok /\ ~second.ok) =>
             (~codec.out.ok /\ codec.out.thrown /\ codec.out.error = first.error)

\* C13: whenever tag verification of the supplied token fails, decrypt()
\* reports a failure to its caller and returns no plaintext for that input.
C13_TagFailureNeverYieldsPlaintext ==
  (codec.fn = "decrypt"
     /\ decryptDataset(codec.variant, codec.data, codec.key).error
          = "HMAC verification failed") =>
    ~codec.out.ok

\* C14: when the raw first byte is not the version byte the decoder retries
\* against the base64url-decoded form: a decoded form that validates is
\* decoded, and when neither form validates the one failure reported is the
\* error of the raw form.  (The validation of a given form is decryptDataset
\* as DecryptionService.ts has it, without the retry.)
C14_WrappedTokenRawFormError ==
  (codec.fn = "decryptDataset" /\ Len(codec.data) > 0 /\ codec.data[1] # VERSION) =>
    LET raw == decryptDataset("nullReturning", codec.data, codec.key)
        decoded == decryptDataset("nullReturning", base64UrlDecode(codec.data), codec.key)
    IN  /\ decoded.ok => (codec.out.ok /\ codec.out.value = decoded.value)
        /\ (~raw.ok /\ ~decoded.ok) => (~codec.out.ok /\ codec.out.error = raw.error)

ValidCallback(cb) ==
  \E ch \in cb.challenge :
    /\ cb.nonce = ch.nonce
    /\ cb.at <= ch.expiresAt
    /\ cb.signature.signer \in Signers
    /\ cb.signature.nonce = cb.nonce
    /\ toLowerCase(cb.signature.signer) = toLowerCase(cb.address)

\* C4: authenticate completes with success for address A only if a callback
\* was received whose nonce equals the outstanding challenge's nonce, at a
\* time <= the challenge's expiresAt, with a signature over that nonce that
\* recovers to A case-insensitively; a callback failing any of these is
\* answered 400 and completes no attempt.
C4_SuccessOnlyByValidCallback ==
  /\ \A c \in Calls :
       auth.calls[c].result.success =>
         \E cb \in auth.calls[c].resolvedBy :
           /\ cb.address = auth.calls[c].result.walletAddress
           /\ ValidCallback(cb)
  /\ (auth.lastCb.kind = "callback" /\ ~ValidCallback(auth.lastCb)) =>
       (auth.lastCb.status = 400 /\ auth.lastCb.resolved = {})

\* an attempt has returned success for "0xab" from a callback that arrived
\* exactly at expiresAt with a signature recovering to "0xAB"
C4_Witness ==
  \E c \in Calls :
    /\ auth.calls[c].pc = "done"
    /\ auth.calls[c].result.success
    /\ auth.calls[c].result.walletAddress = "0xab"
    /\ \E cb \in auth.calls[c].resolvedBy :
         /\ cb.signature.signer = "0xAB"
         /\ \E ch \in cb.challenge : cb.at = ch.expiresAt

\* C5: once a later authenticate call has issued its challenge, a callback
\* carrying an earlier call's nonce is answered 400 and completes no attempt.
C5_SupersededNonceRejected ==
  (auth.lastCb.kind = "callback" /\ auth.lastCb.nonce >= 1
     /\ auth.lastCb.nonce < auth.lastCb.latest) =>
    (auth.lastCb.status = 400 /\ auth.lastCb.resolved = {})

\* a callback with the first call's nonce, a good signature over it and the
\* first challenge's lifetime not over, handled after the second challenge
\* was issued, and refused
C5_Witness ==
  /\ auth.lastCb.kind = "callback"
  /\ auth.lastCb.nonce = 1
  /\ auth.lastCb.latest = 2
  /\ auth.lastCb.address = "0xab"
  /\ auth.lastCb.signature = [signer |-> "0xAB", nonce |-> 1]
  /\ auth.lastCb.at <= AUTH_TIMEOUT_MS
  /\ auth.lastCb.challenge # {}
  /\ auth.lastCb.status = 400

\* C6: once a callback with nonce N has been answered with success, no later
\* callback with nonce N is answered with success.
C6_NonceAcceptedOnce ==
  (auth.lastCb.kind = "callback" /\ auth.lastCb.repeat) => auth.lastCb.status = 400

\* the failure results of authenticate()
TimedOut == "Authentication timeout (2 minutes)"
Cancelled == "Authentication cancelled by user"

\* call c has returned
Returned(c) == auth.calls[c].pc = "done"

\* C16 (under AuthLiveSpec): every authenticate() call that was started
\* returns; a call that no callback resolved returns a failure result; and a
\* pending call whose token was not cancelled is rejected only by its timer
\* being due, with the timeout error.
C16_EveryCallReturns ==
  /\ \A c \in Calls : (auth.calls[c].pc # "idle") ~> Returned(c)
  /\ [](\A c \in Calls :
          (Returned(c) /\ auth.calls[c].resolvedBy = {}) =>
            (~auth.calls[c].result.success /\ auth.calls[c].result.error # ""))
  /\ [][\A c \in Calls :
          (auth.calls[c].pc = "wait" /\ auth'.calls[c].pc # "wait"
             /\ ~auth'.calls[c].result.success
             /\ auth'.cancellation[c] = auth.cancellation[c]) =>
            (now >= auth.calls[c].timer /\ auth'.calls[c].result.error = TimedOut)]_vars

\* C16 witness: a call has returned the timeout failure although another
\* call, started while it was pending, was resolved by a callback
C16_Witness ==
  \E c, d \in Calls :
    /\ c # d
    /\ Returned(c) /\ auth.calls[c].result.error = TimedOut
    /\ Returned(d) /\ auth.calls[d].result.success
    /\ auth.calls[c].nonce < auth.calls[d].nonce

\* C17: the timer is started when the challenge is issued: while a call is
\* pending on its own challenge the timer's deadline is the challenge's
\* expiresAt, and the challenge is never expired with the timer not yet due.
C17_TimerDeadlineIsExpiresAt ==
  \A c \in Calls :
    \A ch \in auth.authChallenge :
      (auth.calls[c].pc = "wait" /\ ch.nonce = auth.calls[c].nonce) =>
        /\ auth.calls[c].timer = ch.expiresAt
        /\ ~(now > ch.expiresAt /\ now < auth.calls[c].timer)

\* C18 (under AuthLiveSpec): the cancellation signal rejects the pending
\* authentication at once from any non-terminal state: in the step in which
\* the token of a call is cancelled during port search, listener start,
\* browser launch or the wait, the call is rejected as cancelled.
C18_CancelRejectsAtOnce ==
  [][\A c \in Calls :
       (auth.cancellation[c] = "none" /\ auth'.cancellation[c] # "none"
          /\ auth.calls[c].pc \in {"port", "browser", "wait"}) =>
         /\ auth'.calls[c].pc \in {"cleanup1", "done"}
         /\ auth'.calls[c].result.error = Cancelled]_vars

\* the server call c started holds no port
PortReleased(a, c) == a.servers[c] \notin {"listening", "closing"}

\* C19 (under AuthLiveSpec): cancelling again, or cancelling a call that has
\* completed, changes neither its result nor any state of the service; and a
\* call that returns cancelled has released the port it bound.
C19_CancelIdempotentPortReleased ==
  [][\A c \in Calls :
       /\ (auth'.cancellation[c] # auth.cancellation[c]
             /\ auth.calls[c].pc \in {"cleanup1", "done"}) =>
            [auth' EXCEPT !.cancellation = auth.cancellation] = auth
       /\ (auth'.calls[c].pc = "done" /\ auth'.calls[c].result.error = Cancelled) =>
            PortReleased(auth', c)]_vars

\* C20: when a call has returned, whatever its outcome, the listener it
\* started is closed, and the challenge it issued and the resolve and reject
\* handles it installed are no longer held by the service.
C20_ListenerClosedOnReturn ==
  \A c \in Calls :
    Returned(c) =>
      /\ PortReleased(auth, c)
      /\ c \notin auth.authResolve \cup auth.authReject
      /\ \A ch \in auth.authChallenge : ch.nonce # auth.calls[c].nonce

\* the listeners started by the instance that are bound to a port
BoundListeners(a) == {c \in Calls : a.servers[c] = "listening"}

\* C21: at most one challenge/listener pair is active per instance: a new
\* authenticate() call first tears down the previous listener, so two
\* listeners started by the same instance are never bound at the same time.
C21_AtMostOneListenerBound ==
  Cardinality(BoundListeners(auth)) <= 1

\* C22: a callback that is rejected (nonce mismatch, expired challenge or
\* signature mismatch) ends the authentication: after the handler has answered
\* such a callback with 400, no call is left waiting for a callback, no
\* listener is bound and no challenge is held.
C22_RejectedCallbackEndsAuthentication ==
  (auth.lastCb.kind = "callback" /\ auth.lastCb.status = 400
     /\ auth.lastCb.address # "" /\ auth.lastCb.nonce # 0) =>
    /\ \A c \in Calls : auth.calls[c].pc # "wait"
    /\ BoundListeners(auth) = {}
    /\ auth.authChallenge = {}

\* C23: a callback that passes all checks and is answered 200 resolves the
\* pending authentication with its address: some call was resolved by it, and
\* that call's result is success for the callback's address.
C23_SuccessAnswerResolvesCall ==
  (auth.lastCb.kind = "callback" /\ auth.lastCb.status = 200) =>
    \E c \in auth.lastCb.resolved :
      /\ auth.calls[c].result.success
      /\ auth.calls[c].result.walletAddress = auth.lastCb.address

\* call c was superseded by call d: d issued its challenge after c did
Superseded(a, c, d) ==
  c # d /\ a.calls[c].nonce # 0 /\ a.calls[c].nonce < a.calls[d].nonce

\* C36: a superseded call that ends by its own timer or by its cancellation
\* token leaves the newer, still pending call alone: neither the step in
\* which it is rejected nor the end of the cleanup it runs closes the newer
\* call's listener, clears its challenge or drops its resolve handle.
C36_SupersededEndLeavesNewerCall ==
  [][\A c, d \in Calls :
       (/\ Superseded(auth, c, d)
        /\ auth.calls[d].pc = "wait" /\ auth'.calls[d].pc = "wait"
        /\ auth.calls[c].pc \in {"wait", "cleanup1"}
        /\ auth'.calls[c].pc \in {"cleanup1", "done"}
        /\ auth'.calls[c].pc # auth.calls[c].pc
        /\ auth'.calls[c].result.error \in {TimedOut, Cancelled}) =>
         /\ auth'.servers[d] = auth.servers[d]
         /\ auth'.authChallenge = auth.authChallenge
         /\ auth'.authResolve = auth.authResolve]_vars

\* the error of findAvailablePort when no port of the range is free
RangeExhausted == "No available ports found in range 3000-3099"

\* C34: a bind failure on one port is recovered by trying the next port of
\* the range: a call whose listen on a port failed has either gone on, or
\* has failed because the whole range is exhausted, and reports that.
C34_BindFailureOnlyWhenRangeExhausted ==
  \A c \in Calls :
    auth.servers[c] = "failed" =>
      \/ auth.calls[c].pc \in {"port", "browser", "wait"}
      \/ auth.calls[c].result.error = RangeExhausted

(***************************************************************************)
(* Claims about the wallet session (under SessionSpec) and the lifecycle   *)
(* of stored entries (under CtlSpec)                                       *)
(***************************************************************************)
\* C7: whenever the controller's current session is connected with an
\* address, authenticate() has returned success for that address before.
C7_ConnectedOnlyAfterAuthenticate ==
  \A ss \in ctl.currentSession :
    ss.isConnected => ss.walletAddress \in ctl.verified

\* the steps that remove entries on request: lockDataset's removeDataset,
\* clearAllDatasets' clearAll, and dispose
ExplicitRemoval(op, tokenId) ==
  \/ op.kind = "removeDataset" /\ op.id = tokenId
  \/ op.kind \in {"clearAll", "dispose"}

\* C8: an entry appears in the store, or changes, only in a step of
\* unlockDataset or openLocalFile in which the backend had returned a key and
\* decrypt returned the plaintext that is stored; an entry disappears only by
\* explicit removal, by a full clear, or when now > its expiryTimestamp.
C8_StoreLifecycle ==
  [][/\ \A t \in DOMAIN datasets' :
          (t \notin DOMAIN datasets \/ datasets'[t] # datasets[t]) =>
            /\ lastOp'.kind = "storeDataset" /\ lastOp'.id = t
            /\ ctl.job.kind \in {"unlock", "local"} /\ ctl.job.tokenId = t
            /\ \E f \in lastOp'.pre :
                 f.keyReturned /\ f.decryptOk /\ f.value = datasets'[t].content
     /\ \A t \in DOMAIN datasets :
          t \notin DOMAIN datasets' =>
            \/ ExplicitRemoval(lastOp', t)
            \/ now > datasets[t].expiryTimestamp
    ]_vars

\* unlockDataset has just stored token 7 while the entry of a local file is
\* in the store too
C8_Witness ==
  /\ lastOp.kind = "storeDataset"
  /\ lastOp.id = "7"
  /\ "7" \in DOMAIN datasets
  /\ datasets["7"].content = PlainA
  /\ LocalId \in DOMAIN datasets
  /\ \E f \in lastOp.pre : f.keyReturned /\ f.decryptOk

\* C28 (under CtlSpec): after every put on the store a "created" event, and
\* after every removal of an entry from the store a "deleted" event, is fired
\* for the entry's address <identifier>/<displayName>: no entry enters or
\* leaves the map in a step that does not fire the matching event.
C28_PutAndRemoveFireEvents ==
  [][/\ \A id \in DOMAIN datasets' :
          (id \notin DOMAIN datasets \/ datasets'[id] # datasets[id]) =>
            notifyFileCreated(id, datasets'[id].filename) \subseteq ret'.events
     /\ \A id \in (DOMAIN datasets) \ (DOMAIN datasets') :
          notifyFileDeleted(id, datasets[id].filename) \subseteq ret'.events]_vars

\* the keys StorageService writes to globalState
SessionKeys == {"walletAddress", "connectedAt", "lastVerified"}

C33_OpenOnlyAfterVerification ==
  (ctl.job.kind = "unlock" /\ ctl.job.pc = "open") =>
    /\ ctl.job.key # {}
    /\ \A ss \in ctl.currentSession :
         ss.isConnected => ctl.job.wallet = ss.walletAddress

\* C37 (under CtlSpec): lockDataset returns true and fires a "deleted" event
\* only if its own removeDataset call removed an entry: when it has returned
\* true, the entry was in the map at the removal, and the event fired is the
\* one for the removed entry's filename.
C37_LockTrueOnlyIfRemoved ==
  (lastOp.kind = "removeDataset" /\ ret.flag) =>
    \E d \in lastOp.pre :
      ret.events = notifyFileDeleted(lastOp.id, d.filename)

\* the session of the controller changes in a step that is not a restart
SessionChanges ==
  ctl'.currentSession # ctl.currentSession /\ lastOp'.kind # "dispose"

\* C38 as stated (under CtlSpec): a disconnect or a switch of wallet leaves
\* the store unchanged, and an entry that is held and not expired is opened
\* by unlockDataset's already-unlocked path whatever the session is.
C38_EntriesOpenableInAnySession ==
  [][/\ (SessionChanges => datasets' = datasets)
     /\ ((lastOp'.kind = "unlockDataset" /\ hasDataset(datasets, lastOp'.id, now)) =>
          /\ ctl'.job.kind = "unlock"
          /\ ctl'.job.pc = "open")]_vars

\* C38: a disconnect or a switch of wallet leaves the store unchanged; the
\* bytes of a held, unexpired entry are what the store returns to readFile in
\* every session state; and unlockDataset opens such an entry by its
\* already-unlocked path, with no request to the backend, exactly when some
\* wallet is connected, whichever it is.  With no wallet connected
\* unlockDataset returns before it looks at the store, and changes nothing.
C38_SessionChangeLeavesStore ==
  /\ [](\A id \in DOMAIN datasets :
          hasDataset(datasets, id, now) =>
            getDatasetContent(datasets, id, now) = {datasets[id].content})
  /\ [][/\ (SessionChanges => datasets' = datasets)
        /\ ((lastOp'.kind = "unlockDataset" /\ hasDataset(datasets, lastOp'.id, now)) =>
             /\ datasets' = datasets
             /\ IF isConnected(ctl)
                   THEN /\ ctl'.job.kind = "unlock" /\ ctl'.job.pc = "open"
                        /\ ctl'.job.tokenId = lastOp'.id
                        /\ ctl'.job.wallet = ""
                   ELSE ctl' = ctl)]_vars

\* C38 witness: token 7 was unlocked, the wallet was disconnected, the entry
\* is still held and unexpired, and unlockDataset has just been refused
C38_Witness ==
  /\ hasDataset(datasets, "7", now)
  /\ datasets["7"].content = PlainA
  /\ ctl.currentSession = {Disconnected}
  /\ lastOp.kind = "unlockDataset" /\ lastOp.id = "7"
  /\ ctl.job = IdleJob

\* the session loadPersistedSession returns for a persisted record
RestoredSession(ps) ==
  [walletAddress |-> ps.walletAddress, connectedAt |-> ps.connectedAt,
   isConnected |-> TRUE]

\* the age of a persisted record does not exceed the configured timeout
WithinTimeout(ps, t) == t - ps.lastVerified <= WalletSessionTimeoutDays * Day

\* C39 (under SessionSpec): a persisted session is restored only while valid.
\* isSessionValid passes exactly when a session is persisted whose age,
\* now - lastVerified, does not exceed the timeout, and then leaves it as it
\* is; a session found expired is cleared from the persistent store; the load
\* that follows returns the connected session of the persisted record, or
\* nothing when none is persisted; and once nothing is persisted, nothing is
\* until a connected session is saved, so that no later load returns one.
C39_RestoredOnlyWhileValid ==
  /\ [](/\ (lastOp.kind = "isSessionValid" =>
              /\ (ctl.restore = "load" <=>
                    \E ps \in lastOp.pre : WithinTimeout(ps, now))
              /\ (ctl.restore = "load" => ctl.persisted = lastOp.pre)
              /\ (ctl.restore # "load" => ctl.persisted = {} /\ ctl.restore = "idle"))
        /\ (lastOp.kind = "loadWalletSession" =>
              /\ ctl.restore = "idle"
              /\ \A ps \in lastOp.pre :
                   /\ ctl.currentSession = {RestoredSession(ps)}
                   /\ \E qs \in ctl.persisted : qs.walletAddress = ps.walletAddress))
  /\ [][/\ ((lastOp'.kind = "loadWalletSession" /\ lastOp'.pre = {}) =>
              ctl'.currentSession = ctl.currentSession /\ ctl'.persisted = {})
        /\ ((ctl.persisted = {} /\ ctl'.persisted # {}) =>
              /\ lastOp'.kind # "loadWalletSession"
              /\ \E ss \in ctl'.currentSession :
                   /\ ss.isConnected
                   /\ ctl'.persisted =
                        {[walletAddress |-> ss.walletAddress,
                          connectedAt |-> ss.connectedAt, lastVerified |-> now]})]_vars

\* C39 witness: isSessionValid has just found the persisted session older
\* than the timeout and cleared it, and nothing is restored
C39_Witness ==
  /\ lastOp.kind = "isSessionValid"
  /\ \E ps \in lastOp.pre : ~WithinTimeout(ps, now)
  /\ ctl.persisted = {}
  /\ ctl.restore = "idle"
  /\ ctl.currentSession = {}

====
